---------------------------- MODULE Spec2Model ----------------------------
(***************************************************************************)
(* ClawdBar: credential validation, rate limiting and the USDC deposit     *)
(* handler (POST /api/wallet/deposit) with its on-chain verification.      *)
(*                                                                         *)
(* Text is modelled as a sequence of one-character strings so that the     *)
(* format test, toLowerCase, substring and slice act on characters.        *)
(* Money is counted in micro-USDC (the token's 6 decimals), so 1.00 USDC   *)
(* is 1000000.                                                             *)
(***************************************************************************)
EXTENDS Integers, Sequences, FiniteSets, TLC

(***************************************************************************)
(* Text helpers (JavaScript String operations)                             *)
(***************************************************************************)
UpperAlpha ==
  <<"A","B","C","D","E","F","G","H","I","J","K","L","M",
    "N","O","P","Q","R","S","T","U","V","W","X","Y","Z">>

LowerAlpha ==
  <<"a","b","c","d","e","f","g","h","i","j","k","l","m",
    "n","o","p","q","r","s","t","u","v","w","x","y","z">>

\* the lower-case form of every upper-case letter
LowerCaseOf == [i \in 1..26 |-> LowerAlpha[i]]

UpperIndex == [c \in {UpperAlpha[i] : i \in 1..26} |-> CHOOSE i \in 1..26 : UpperAlpha[i] = c]

LowerChar(c) == IF c \in DOMAIN UpperIndex THEN LowerCaseOf[UpperIndex[c]] ELSE c

\* String.prototype.toLowerCase
toLowerCase(s) == [i \in 1..Len(s) |-> LowerChar(s[i])]

\* String.prototype.slice(n) / substring(0, n), 0-based as in JavaScript
slice(s, n) == IF n >= Len(s) THEN <<>> ELSE SubSeq(s, n + 1, Len(s))

substring0(s, n) == IF n >= Len(s) THEN s ELSE SubSeq(s, 1, n)

Rep(c, n) == [i \in 1..n |-> c]

HexDigits ==
  {"0","1","2","3","4","5","6","7","8","9",
   "a","b","c","d","e","f","A","B","C","D","E","F"}

HexDigitValue(c) ==
  CASE c = "0" -> 0  [] c = "1" -> 1  [] c = "2" -> 2  [] c = "3" -> 3
    [] c = "4" -> 4  [] c = "5" -> 5  [] c = "6" -> 6  [] c = "7" -> 7
    [] c = "8" -> 8  [] c = "9" -> 9
    [] c \in {"a","A"} -> 10  [] c \in {"b","B"} -> 11
    [] c \in {"c","C"} -> 12  [] c \in {"d","D"} -> 13
    [] c \in {"e","E"} -> 14  [] c \in {"f","F"} -> 15

RECURSIVE HexValue(_)
\* value of a string of hex digits, most significant digit first
HexValue(ds) ==
  IF ds = <<>> THEN 0
  ELSE 16 * HexValue(SubSeq(ds, 1, Len(ds) - 1)) + HexDigitValue(ds[Len(ds)])

(***************************************************************************)
(* src/lib/blockchain.ts                                                   *)
(***************************************************************************)
USDC_CONTRACT ==
  <<"0","x","3","c","4","9","9","c","5","4","2","c","E","F","5","E","3","8",
    "1","1","e","1","1","9","2","c","e","7","0","d","8","c","C","0","3","d",
    "5","c","3","3","5","9">>

\* 1.00 and 1000.00 USDC in micro-USDC
MIN_DEPOSIT_USDC == 1000000

MAX_DEPOSIT_USDC == 1000000000

TRANSFER_EVENT_SIGNATURE ==
  <<"0","x","d","d","f","2","5","2","a","d","1","b","e","2","c","8","9","b",
    "6","9","c","2","b","0","6","8","f","c","3","7","8","d","a","a","9","5",
    "2","b","a","7","f","1","6","3","c","4","a","1","1","6","2","8","f","5",
    "5","a","4","d","f","5","2","3","b","3","e","f">>

\* number of hex digits the format test /^0x[a-fA-F0-9]{64}$/ asks for
TxHashHexDigits == 64

\* a format test that only tests the length and the hex digits
TxHashFormatNoPrefix(txHash) ==
  /\ Len(txHash) = 2 + TxHashHexDigits
  /\ \A i \in 3..Len(txHash) : txHash[i] \in HexDigits

\* /^0x[a-fA-F0-9]{64}$/.test(txHash)
TxHashFormatOK(txHash) ==
  /\ Len(txHash) = 2 + TxHashHexDigits
  /\ txHash[1] = "0"
  /\ txHash[2] = "x"
  /\ \A i \in 3..Len(txHash) : txHash[i] \in HexDigits

\* the unset environment variable
Unset == <<>>

\* isBlockchainConfigured(): !!process.env.CLAWDBAR_TREASURY_ADDRESS
isBlockchainConfigured(e) == e.CLAWDBAR_TREASURY_ADDRESS # Unset

\* getTreasuryAddress(): the lower-cased address (throws when unset, which
\* the callers test with TreasuryThrows)
getTreasuryAddress(e) == toLowerCase(e.CLAWDBAR_TREASURY_ADDRESS)

TreasuryThrows(e) == e.CLAWDBAR_TREASURY_ADDRESS = Unset

\* parseUSDCAmount: BigInt(hexData), here kept in micro-USDC
parseUSDCAmount(hexData) == HexValue(slice(hexData, 2))

\* parseAddress: '0x' + topic.slice(26).toLowerCase()
parseAddress(topic) == <<"0","x">> \o toLowerCase(slice(topic, 26))

\* parseInt(receipt.blockNumber, 16)
parseBlockNumber(hexData) == HexValue(slice(hexData, 2))

NoAddress == <<>>

Invalid(msg) ==
  [valid |-> FALSE, amount |-> 0, from |-> NoAddress, to |-> NoAddress,
   blockNumber |-> 0, error |-> msg]

NoLog == 0

RECURSIVE FindTransferAnyRecipient(_, _, _)
\* a log loop that takes the first USDC Transfer log, whoever receives it
FindTransferAnyRecipient(logs, i, treasuryAddress) ==
  IF i > Len(logs) THEN NoLog
  ELSE IF toLowerCase(logs[i].address) # toLowerCase(USDC_CONTRACT)
    THEN FindTransferAnyRecipient(logs, i + 1, treasuryAddress)
  ELSE IF Len(logs[i].topics) = 0 \/ logs[i].topics[1] # TRANSFER_EVENT_SIGNATURE
    THEN FindTransferAnyRecipient(logs, i + 1, treasuryAddress)
  ELSE i

RECURSIVE FindTransferLast(_, _, _)
\* a log loop without the break: the last matching log wins
FindTransferLast(logs, i, treasuryAddress) ==
  IF i > Len(logs) THEN NoLog
  ELSE LET later == FindTransferLast(logs, i + 1, treasuryAddress)
       IN  IF later # NoLog THEN later
           ELSE IF /\ toLowerCase(logs[i].address) = toLowerCase(USDC_CONTRACT)
                   /\ Len(logs[i].topics) >= 3
                   /\ logs[i].topics[1] = TRANSFER_EVENT_SIGNATURE
                   /\ parseAddress(logs[i].topics[3]) = treasuryAddress
             THEN i
           ELSE NoLog

RECURSIVE FindTransfer(_, _, _)
\* the for loop over receipt.logs: the index of the first log from the USDC
\* contract with the Transfer signature whose recipient is the treasury,
\* NoLog when the loop ends without one, -1 when reading topics[2] throws
FindTransfer(logs, i, treasuryAddress) ==
  IF i > Len(logs) THEN NoLog
  ELSE IF toLowerCase(logs[i].address) # toLowerCase(USDC_CONTRACT)
    THEN FindTransfer(logs, i + 1, treasuryAddress)
  ELSE IF Len(logs[i].topics) = 0 \/ logs[i].topics[1] # TRANSFER_EVENT_SIGNATURE
    THEN FindTransfer(logs, i + 1, treasuryAddress)
  ELSE IF Len(logs[i].topics) < 3 THEN -1
  ELSE IF parseAddress(logs[i].topics[3]) = treasuryAddress THEN i
  ELSE FindTransfer(logs, i + 1, treasuryAddress)

\* amount bounds that refuse the bounds themselves
VerifyLogsOpenBounds(receipt, treasuryAddress) ==
  LET logs == receipt.logs
      k    == FindTransfer(logs, 1, treasuryAddress)
  IN  IF k = -1 THEN Invalid("TypeError")
      ELSE IF k = NoLog
        THEN Invalid("No USDC transfer to treasury address found in transaction")
      ELSE
        LET amount == parseUSDCAmount(logs[k].data)
        IN  IF amount <= MIN_DEPOSIT_USDC
              THEN Invalid("Minimum deposit is $1 USDC")
            ELSE IF amount >= MAX_DEPOSIT_USDC
              THEN Invalid("Maximum deposit is $1000 USDC")
            ELSE [valid |-> TRUE, amount |-> amount,
                  from |-> parseAddress(logs[k].topics[2]),
                  to |-> treasuryAddress,
                  blockNumber |-> parseBlockNumber(receipt.blockNumber),
                  error |-> ""]

\* a verification that accepts transfers of one known sender only
VerifyLogsKnownSender(receipt, treasuryAddress) ==
  LET logs == receipt.logs
      k    == FindTransfer(logs, 1, treasuryAddress)
  IN  IF k = -1 THEN Invalid("TypeError")
      ELSE IF k = NoLog \/ parseAddress(logs[k].topics[2]) # <<"0","x">> \o Rep("5", 40)
        THEN Invalid("No USDC transfer to treasury address found in transaction")
      ELSE
        LET amount == parseUSDCAmount(logs[k].data)
        IN  IF amount < MIN_DEPOSIT_USDC
              THEN Invalid("Minimum deposit is $1 USDC")
            ELSE IF amount > MAX_DEPOSIT_USDC
              THEN Invalid("Maximum deposit is $1000 USDC")
            ELSE [valid |-> TRUE, amount |-> amount,
                  from |-> parseAddress(logs[k].topics[2]),
                  to |-> treasuryAddress,
                  blockNumber |-> parseBlockNumber(receipt.blockNumber),
                  error |-> ""]

\* A reply of the RPC endpoint to eth_getTransactionReceipt:
\*   [kind |-> "error"]                       the endpoint answers data.error
\*   [kind |-> "network"]                     fetch rejects (network failure)
\*   [kind |-> "null"]                        no receipt yet
\*   [kind |-> "receipt", receipt |-> ...]    a receipt
\* verifyUSDCTransfer from the log loop on: the transfer found and its amount
VerifyLogs(receipt, treasuryAddress) ==
  LET logs == receipt.logs
      k    == FindTransfer(logs, 1, treasuryAddress)
  IN  IF k = -1 THEN Invalid("TypeError")
      ELSE IF k = NoLog
        THEN Invalid("No USDC transfer to treasury address found in transaction")
      ELSE
        LET amount == parseUSDCAmount(logs[k].data)
        IN  IF amount < MIN_DEPOSIT_USDC
              THEN Invalid("Minimum deposit is $1 USDC")
            ELSE IF amount > MAX_DEPOSIT_USDC
              THEN Invalid("Maximum deposit is $1000 USDC")
            ELSE [valid |-> TRUE, amount |-> amount,
                  from |-> parseAddress(logs[k].topics[2]),
                  to |-> treasuryAddress,
                  blockNumber |-> parseBlockNumber(receipt.blockNumber),
                  error |-> ""]

\* a verification that gives a missing receipt the reason of a failed one
VerifyReceiptOneReason(reply, treasuryAddress) ==
  IF reply.kind = "error" THEN Invalid("RPC Error")
  ELSE IF reply.kind = "network" THEN Invalid("fetch failed")
  ELSE IF reply.kind = "null" \/ reply.receipt.status # <<"0","x","1">>
    THEN Invalid("Transaction failed")
  ELSE VerifyLogs(reply.receipt, treasuryAddress)

\* verification that goes to the logs without testing receipt.status
VerifyReceiptSkipStatus(reply, treasuryAddress) ==
  IF reply.kind = "error" THEN Invalid("RPC Error")
  ELSE IF reply.kind = "network" THEN Invalid("fetch failed")
  ELSE IF reply.kind = "null"
    THEN Invalid("Transaction not found or not yet confirmed")
  ELSE VerifyLogs(reply.receipt, treasuryAddress)

StatusSuccess == <<"0","x","1">>

\* verifyUSDCTransfer after the format test and the treasury lookup: what it
\* returns for the endpoint's reply
VerifyReceipt(reply, treasuryAddress) ==
  IF reply.kind = "error" THEN Invalid("RPC Error")
  ELSE IF reply.kind = "network" THEN Invalid("fetch failed")
  ELSE IF reply.kind = "null"
    THEN Invalid("Transaction not found or not yet confirmed")
  ELSE IF reply.receipt.status # StatusSuccess
    THEN Invalid("Transaction failed")
  ELSE VerifyLogs(reply.receipt, treasuryAddress)

\* does verifyUSDCTransfer reach the RPC call for this hash?
VerifyCallsRpc(txHash, e) == TxHashFormatOK(txHash) /\ ~TreasuryThrows(e)

\* verifyUSDCTransfer(txHash), given the endpoint's reply should it be asked
verifyUSDCTransfer(txHash, e, reply) ==
  IF ~TxHashFormatOK(txHash) THEN Invalid("Invalid transaction hash format")
  ELSE IF TreasuryThrows(e) THEN Invalid("Treasury wallet not configured")
  ELSE VerifyReceipt(reply, getTreasuryAddress(e))


(***************************************************************************)
(* src/lib/auth.ts                                                         *)
(***************************************************************************)
\* bcrypt.hash(apiKey, BCRYPT_ROUNDS) with the salt it draws
hashApiKey(apiKey, salt) == [alg |-> "bcrypt", salt |-> salt, digest |-> <<salt, apiKey>>]

\* a comparison that accepts every key
bcryptCompareAlways(apiKey, hash) == TRUE

\* bcrypt.compare(apiKey, hash): re-hash with the stored salt and compare
bcryptCompare(apiKey, hash) == hashApiKey(apiKey, hash.salt) = hash

\* number of leading characters kept as the lookup prefix
KeyPrefixLen == 16

\* getKeyPrefix(apiKey): apiKey.substring(0, 16)
getKeyPrefix(apiKey) == substring0(apiKey, KeyPrefixLen)

RECURSIVE Like(_, _)
\* SQL: text LIKE pattern ('_' matches one character, '%' any run)
Like(text, pattern) ==
  IF pattern = <<>> THEN text = <<>>
  ELSE IF pattern[1] = "%"
    THEN \/ Like(text, Tail(pattern))
         \/ (text # <<>> /\ Like(Tail(text), pattern))
  ELSE /\ text # <<>>
       /\ (pattern[1] = "_" \/ pattern[1] = text[1])
       /\ Like(Tail(text), Tail(pattern))

(***************************************************************************)
(* The deployment, the record store, the clock and the requests in flight  *)
(***************************************************************************)
VARIABLES
  env,        \* process.env: NODE_ENV and CLAWDBAR_TREASURY_ADDRESS
  agents,     \* table agents: id -> row
  deposits,   \* table deposits: a set of rows, tx_hash unique
  buckets,    \* rate limiter: <<subject, action class>> -> bucket
  now,        \* wall clock, in minutes
  req,        \* the deposit requests: position, inputs, locals, history
  issued,     \* the 201 responses of registration: agent_id and api_key
  calls,      \* history of the limiter's decisions: time, decision, tokens left
  reg         \* the registration requests: position, inputs, locals, response

vars == <<env, agents, deposits, buckets, now, req, issued, calls, reg>>

\* ---- bounds of the model ----
\* number of deposit requests that may be in flight together
NumRequests == 2

Requests == 1..NumRequests

\* ---- the registered agents and the keys in use ----
KeyOf(c) == <<"c","l","w","d","b","a","r","_">> \o Rep(c, 8) \o Rep(LowerChar(c), 20)

KeyA == KeyOf("A")

KeyB == KeyOf("B")

\* KeyA with its last character changed: same lookup prefix, other secret
KeyForged == SubSeq(KeyA, 1, Len(KeyA) - 1) \o <<"z">>

\* a request without the X-Agent-Key header
NoKey == <<>>

\* KeyA without its last character, KeyA with one more character, and a
\* key whose lookup prefix ends in the LIKE pattern character '%'
KeyTruncated == SubSeq(KeyA, 1, Len(KeyA) - 1)

KeyExtended == KeyA \o <<"x">>

KeyPattern == <<"c","l","w","d","b","a","r","_","%">>

PresentedKeys ==
  {KeyA, KeyB, KeyForged, KeyTruncated, KeyExtended, KeyPattern, NoKey}

\* a column that holds no value
Null == <<"N","U","L","L">>

\* the row the register route inserts: the hash and the lookup prefix of the
\* key; the api_key column is not written
AgentRow(name, apiKey, salt) ==
  [name |-> name,
   api_key |-> Null,
   api_key_hash |-> hashApiKey(apiKey, salt),
   api_key_prefix |-> getKeyPrefix(apiKey),
   balance_usdc |-> 0,
   status |-> "offline",
   last_seen |-> -1]

RegisteredAgents ==
  ("agentA" :> AgentRow("alice", KeyA, "s1")) @@ ("agentB" :> AgentRow("bob", KeyB, "s2"))

\* the registration responses that gave the registered agents their keys
RegisteredKeys ==
  {[agent_id |-> "agentA", api_key |-> KeyA], [agent_id |-> "agentB", api_key |-> KeyB]}

NoAgent == [id |-> "", balance_usdc |-> 0]

\* ---- the chain as the RPC endpoint reports it ----
TreasuryAddress == <<"0","x">> \o Rep("7", 38) \o <<"E","f">>

OtherAddress == <<"0","x">> \o Rep("9", 40)

SenderAddress == <<"0","x">> \o Rep("5", 40)

Topic(address) == <<"0","x">> \o Rep("0", 24) \o slice(address, 2)

Word(hexDigits) == <<"0","x">> \o Rep("0", 64 - Len(hexDigits)) \o hexDigits

TransferLog(contract, to, amountHex) ==
  [address |-> contract,
   topics |-> <<TRANSFER_EVENT_SIGNATURE, Topic(SenderAddress), Topic(to)>>,
   data |-> Word(amountHex)]

\* keccak256('Approval(address,address,uint256)'): the other event of an
\* ERC-20 contract with two indexed addresses
APPROVAL_EVENT_SIGNATURE ==
  <<"0","x","8","c","5","b","e","1","e","5","e","b","e","c","7","d","5","b",
    "d","1","4","f","7","1","4","2","7","d","1","e","8","4","f","3","d","d",
    "0","3","1","4","c","0","f","7","b","2","2","9","1","e","5","b","2","0",
    "0","a","c","8","c","7","c","3","b","9","2","5">>

\* another ERC-20 contract on the same chain
OtherToken == <<"0","x">> \o Rep("c", 40)

\* a log entry of any contract and event
EventLog(contract, signature, from, to, amountHex) ==
  [address |-> contract,
   topics |-> <<signature, Topic(from), Topic(to)>>,
   data |-> Word(amountHex)]

Receipt(status, logs) ==
  [kind |-> "receipt",
   receipt |-> [status |-> status, blockNumber |-> <<"0","x","1","0">>, logs |-> logs]]

TxHash(c) == <<"0","x">> \o Rep(c, TxHashHexDigits)

\* 5 USDC = 0x4c4b40, 7 USDC = 0x6acfc0, 0.5 USDC = 0x7a120 micro-USDC
Hex5USDC == <<"4","c","4","b","4","0">>

Hex7USDC == <<"6","a","c","f","c","0">>

HexHalfUSDC == <<"7","a","1","2","0">>

\* the bounds and their neighbours: 0.999999 = 0xf423f, 1 = 0xf4240,
\* 1000 = 0x3b9aca00, 1000.000001 = 0x3b9aca01 micro-USDC
HexBelowMin == <<"f","4","2","3","f">>

HexMin == <<"f","4","2","4","0">>

HexMax == <<"3","b","9","a","c","a","0","0">>

HexAboveMax == <<"3","b","9","a","c","a","0","1">>

TxGood == TxHash("a")

TxGoodUpper == TxHash("A")

TxGood2 == TxHash("b")

TxFailed == TxHash("c")

TxPending == TxHash("d")

TxNoTransfer == TxHash("e")

TxSmall == TxHash("f")

TxBelowMin == TxHash("1")

TxMin == TxHash("2")

TxMax == TxHash("3")

TxAboveMax == TxHash("4")

\* a transaction the chain has not yet mined when it is first asked about
TxLate == TxHash("9")

\* malformed references
TxTest == <<"0","x","_","t","e","s","t","_","h","a","s","h">>

TxUpperX == <<"0","X">> \o Rep("a", TxHashHexDigits)

\* tx_hash absent from the body (or the empty string)
TxMissing == <<>>

\* eth_getTransactionReceipt as the chain answers it; the node reads the
\* hash as a number, so letter case does not matter to it
ChainReceipt(txHash) ==
  LET h == toLowerCase(txHash)
      ok == <<"0","x","1">>
      usdc(to, amountHex) == TransferLog(USDC_CONTRACT, to, amountHex)
  IN  CASE h = TxGood  -> Receipt(ok, <<usdc(TreasuryAddress, Hex5USDC)>>)
        \* a transfer to another address, another token's transfer to the
        \* treasury and an approval naming it; then 7 USDC to the treasury
        \* from one sender and 5 USDC to the treasury from another
        [] h = TxGood2 ->
             Receipt(ok,
               <<usdc(OtherAddress, Hex5USDC),
                 EventLog(OtherToken, TRANSFER_EVENT_SIGNATURE,
                          SenderAddress, TreasuryAddress, Hex5USDC),
                 EventLog(USDC_CONTRACT, APPROVAL_EVENT_SIGNATURE,
                          SenderAddress, TreasuryAddress, Hex5USDC),
                 usdc(TreasuryAddress, Hex7USDC),
                 EventLog(USDC_CONTRACT, TRANSFER_EVENT_SIGNATURE,
                          OtherAddress, TreasuryAddress, Hex5USDC)>>)
        [] h = TxFailed -> Receipt(<<"0","x","0">>, <<usdc(TreasuryAddress, Hex5USDC)>>)
        \* three logs, each short of one condition: another token's transfer
        \* to the treasury, a USDC approval naming the treasury, and a USDC
        \* transfer from the treasury to another address
        [] h = TxNoTransfer ->
             Receipt(ok,
               <<EventLog(OtherToken, TRANSFER_EVENT_SIGNATURE,
                          SenderAddress, TreasuryAddress, Hex5USDC),
                 EventLog(USDC_CONTRACT, APPROVAL_EVENT_SIGNATURE,
                          SenderAddress, TreasuryAddress, Hex5USDC),
                 EventLog(USDC_CONTRACT, TRANSFER_EVENT_SIGNATURE,
                          TreasuryAddress, OtherAddress, Hex5USDC)>>)
        [] h = TxSmall -> Receipt(ok, <<usdc(TreasuryAddress, HexHalfUSDC)>>)
        [] h = TxBelowMin -> Receipt(ok, <<usdc(TreasuryAddress, HexBelowMin)>>)
        [] h = TxMin -> Receipt(ok, <<usdc(TreasuryAddress, HexMin)>>)
        \* sent by another address than the other transfers
        [] h = TxMax ->
             Receipt(ok, <<EventLog(USDC_CONTRACT, TRANSFER_EVENT_SIGNATURE,
                                    OtherAddress, TreasuryAddress, HexMax)>>)
        [] h = TxAboveMax -> Receipt(ok, <<usdc(TreasuryAddress, HexAboveMax)>>)
        [] h = TxLate -> Receipt(ok, <<usdc(TreasuryAddress, Hex7USDC)>>)
        [] OTHER -> [kind |-> "null"]

\* what one call of rpcCall may return: the chain's answer, null while the
\* transaction is not yet mined, or it throws because the endpoint reports
\* an error or because fetch fails
RpcReplies(txHash) ==
  {ChainReceipt(txHash), [kind |-> "error"], [kind |-> "network"]}
    \cup (IF toLowerCase(txHash) = TxLate THEN {[kind |-> "null"]} ELSE {})

(***************************************************************************)
(* lib/ratelimit (token bucket), after the design document                 *)
(***************************************************************************)
\* a bucket counts twelfths of a token and the clock counts minutes, so
\* that a refill rate of 5 tokens per hour is one twelfth per minute
TOKEN == 12

\* the 'register' and 'deposit' classes: 5 tokens, refilled at 5 per hour
DEPOSIT_CAPACITY == 5

DEPOSIT_REFILL == (5 * TOKEN) \div 60

Min(a, b) == IF a < b THEN a ELSE b

\* a refill that adds elapsed * rate without the cap
RefillUncapped(bucket, t) == bucket.tokens + (t - bucket.last) * DEPOSIT_REFILL

\* lazy refill: tokens added = elapsed * rate, capped at capacity
Refill(bucket, t) ==
  Min(DEPOSIT_CAPACITY * TOKEN, bucket.tokens + (t - bucket.last) * DEPOSIT_REFILL)

\* seconds until a bucket holding 'tokens' twelfths holds one token
ResetIn(tokens) ==
  IF tokens >= TOKEN THEN 0
  ELSE 60 * ((TOKEN - tokens + DEPOSIT_REFILL - 1) \div DEPOSIT_REFILL)

\* a limiter that counts whole tokens only: each call adds the whole tokens
\* the elapsed time pays for and restarts the interval, so that the part of
\* a token earned before a rejected call is lost
CheckAndConsumeWholeTokens(bucket, t) ==
  LET earned == (((t - bucket.last) * DEPOSIT_REFILL) \div TOKEN) * TOKEN
      tokens == Min(DEPOSIT_CAPACITY * TOKEN, bucket.tokens + earned)
  IN  IF tokens >= TOKEN
        THEN [allowed |-> TRUE, bucket |-> [tokens |-> tokens - TOKEN, last |-> t],
              remaining |-> (tokens - TOKEN) \div TOKEN,
              resetIn |-> ResetIn(tokens - TOKEN)]
        ELSE [allowed |-> FALSE, bucket |-> [tokens |-> tokens, last |-> t],
              remaining |-> tokens \div TOKEN, resetIn |-> ResetIn(tokens)]

\* CheckAndConsume: the decision, the bucket it leaves, the number of whole
\* tokens left and the seconds until the next token
CheckAndConsume(bucket, t) ==
  LET tokens == Refill(bucket, t)
  IN  IF tokens >= TOKEN
        THEN [allowed |-> TRUE, bucket |-> [tokens |-> tokens - TOKEN, last |-> t],
              remaining |-> (tokens - TOKEN) \div TOKEN,
              resetIn |-> ResetIn(tokens - TOKEN)]
        ELSE [allowed |-> FALSE, bucket |-> [tokens |-> tokens, last |-> t],
              remaining |-> tokens \div TOKEN, resetIn |-> ResetIn(tokens)]

(***************************************************************************)
(* POST /api/wallet/deposit                                                *)
(***************************************************************************)
TxRefs ==
  {TxMissing, TxTest, TxUpperX, TxGood, TxGoodUpper, TxGood2,
   TxFailed, TxPending, TxNoTransfer, TxSmall,
   TxBelowMin, TxMin, TxMax, TxAboveMax, TxLate}

\* 10, 100 and 200 USDC
TestDefaultAmount == 10000000

TestAmountCap == 100000000

BodyAmount200 == 200 * 1000000

\* body.amount: -5, a number the handler does not refuse
BodyAmountNegative == 0 - 5000000

\* body.amount and body.test_mode as sent; amount 0 stands for an absent one
BodyVariants ==
  {[amount |-> 0, test_mode |-> FALSE], [amount |-> BodyAmount200, test_mode |-> TRUE]}

Body(h, v) == [tx_hash |-> h, amount |-> v.amount, test_mode |-> v.test_mode]

\* the bodies the requests send: every reference plainly, the test-mode
\* variant of a malformed, a well-formed and an upper-case reference, and a
\* test-mode body with a negative amount
Bodies ==
  {Body(h, [amount |-> 0, test_mode |-> FALSE]) : h \in TxRefs}
    \cup {Body(h, [amount |-> BodyAmount200, test_mode |-> TRUE]) :
            h \in {TxTest, TxGood, TxGoodUpper}}
    \cup {Body(TxTest, [amount |-> BodyAmountNegative, test_mode |-> TRUE])}

NoBody == [tx_hash |-> TxMissing, amount |-> 0, test_mode |-> FALSE]

NoResponse == [status |-> 0, error |-> "", amount_credited |-> 0]

\* a response without rate limit headers
NoHeaders == [remaining |-> -1, reset |-> -1]

Idle ==
  [pc |-> "idle", key |-> NoKey, after |-> {}, agent |-> NoAgent, body |-> NoBody,
   verification |-> Invalid(""), response |-> NoResponse, headers |-> NoHeaders,
   trace |-> <<>>]

Environments ==
  {[NODE_ENV |-> n, CLAWDBAR_TREASURY_ADDRESS |-> t] :
     n \in {"development", "production"}, t \in {Unset, TreasuryAddress}}

\* token counts a 'deposit' bucket may hold when the requests arrive
InitialTokens == {1, DEPOSIT_CAPACITY}

Init ==
  /\ env \in Environments
  /\ agents = RegisteredAgents
  /\ deposits = {}
  /\ \E n \in InitialTokens :
       buckets = [id \in DOMAIN RegisteredAgents |-> [tokens |-> n * TOKEN, last |-> 0]]
  /\ now = 0
  /\ req = [r \in Requests |-> Idle]
  /\ issued = RegisteredKeys
  /\ calls = <<>>
  /\ reg = <<>>

Log(r, event) == Append(req[r].trace, event)

ErrorResponse(status, error) == [status |-> status, error |-> error, amount_credited |-> 0]

Success(amount) == [status |-> 200, error |-> "", amount_credited |-> amount]

\* the request arrives with its X-Agent-Key header
Submit(r) ==
  /\ req[r].pc = "idle"
  /\ \E k \in PresentedKeys :
       req' = [req EXCEPT ![r].pc = "auth", ![r].key = k,
                          ![r].after = {q \in Requests : req[q].pc = "done"}]
  /\ UNCHANGED <<env, agents, deposits, buckets, now, issued, calls, reg>>

\* validateApiKey: the rows .like('api_key_prefix', keyPrefix) selects
Candidates(apiKey) ==
  {id \in DOMAIN agents :
     /\ agents[id].api_key_prefix # Null
     /\ Like(agents[id].api_key_prefix, getKeyPrefix(apiKey))}

\* validateApiKey: the candidates bcrypt.compare accepts
Matching(apiKey) ==
  {id \in Candidates(apiKey) : bcryptCompare(apiKey, agents[id].api_key_hash)}

\* the handler's answer when validateApiKey returns null
Unauthorized == ErrorResponse(401, "Invalid or missing API key")

\* where validateApiKey returns null: no header, no row selected, no row
\* whose hash matches; "" when it returns an agent
AuthFailure(apiKey) ==
  IF apiKey = NoKey THEN "auth_missing"
  ELSE IF Candidates(apiKey) = {} THEN "auth_no_rows"
  ELSE IF Matching(apiKey) = {} THEN "auth_no_match"
  ELSE ""

\* a handler that tells a caller whose prefix selected no row that the key
\* is unknown
AuthSelectLeaky(r) ==
  /\ req[r].pc = "auth"
  /\ LET failure == AuthFailure(req[r].key)
     IN  IF failure = "auth_no_rows"
           THEN req' = [req EXCEPT ![r].pc = "done", ![r].trace = Log(r, failure),
                          ![r].response = ErrorResponse(404, "Unknown API key")]
         ELSE IF failure # ""
           THEN req' = [req EXCEPT ![r].pc = "done", ![r].trace = Log(r, failure),
                          ![r].response = Unauthorized]
         ELSE \E id \in Matching(req[r].key) :
                req' = [req EXCEPT ![r].pc = "touch", ![r].trace = Log(r, "auth"),
                          ![r].agent = [id |-> id, balance_usdc |-> agents[id].balance_usdc]]
  /\ UNCHANGED <<env, agents, deposits, buckets, now, issued, calls, reg>>

\* validateApiKey up to the select and the compare loop; 401 when it returns null
AuthSelect(r) ==
  /\ req[r].pc = "auth"
  /\ LET failure == AuthFailure(req[r].key)
     IN  IF failure # ""
           THEN req' = [req EXCEPT ![r].pc = "done", ![r].trace = Log(r, failure),
                          ![r].response = Unauthorized]
           ELSE \E id \in Matching(req[r].key) :
                  req' = [req EXCEPT ![r].pc = "touch", ![r].trace = Log(r, "auth"),
                            ![r].agent = [id |-> id, balance_usdc |-> agents[id].balance_usdc]]
  /\ UNCHANGED <<env, agents, deposits, buckets, now, issued, calls, reg>>

\* validateApiKey when the select fails: 'error' is set and it returns null
AuthSelectFails(r) ==
  /\ req[r].pc = "auth"
  /\ req[r].key # NoKey
  /\ req' = [req EXCEPT ![r].pc = "done", ![r].trace = Log(r, "auth_error"),
                        ![r].response = Unauthorized]
  /\ UNCHANGED <<env, agents, deposits, buckets, now, issued, calls, reg>>

\* a validateApiKey that marks every selected row online, matched or not
AuthTouchAllCandidates(r) ==
  /\ req[r].pc = "touch"
  /\ agents' = [id \in DOMAIN agents |->
                  IF id \in Candidates(req[r].key)
                    THEN [agents[id] EXCEPT !.status = "online", !.last_seen = now]
                    ELSE agents[id]]
  /\ req' = [req EXCEPT ![r].pc = "ratelimit", ![r].trace = Log(r, "touch")]
  /\ UNCHANGED <<env, deposits, buckets, now, issued, calls, reg>>

\* validateApiKey: update last_seen and status of the agent it found
AuthTouch(r) ==
  /\ req[r].pc = "touch"
  /\ agents' = [agents EXCEPT ![req[r].agent.id].status = "online",
                              ![req[r].agent.id].last_seen = now]
  /\ req' = [req EXCEPT ![r].pc = "ratelimit", ![r].trace = Log(r, "touch")]
  /\ UNCHANGED <<env, deposits, buckets, now, issued, calls, reg>>

\* a handler that consults the limiter and lets a rejected request go on
CheckRateLimitAdvisory(r) ==
  /\ req[r].pc = "ratelimit"
  /\ LET id == req[r].agent.id
         rl == CheckAndConsume(buckets[id], now)
     IN  /\ buckets' = [buckets EXCEPT ![id] = rl.bucket]
         /\ req' = [req EXCEPT ![r].pc = "parse", ![r].trace = Log(r, "ratelimit")]
  /\ UNCHANGED <<env, agents, deposits, now, issued, calls, reg>>

\* checkRateLimit(agent.id, 'deposit')
CheckRateLimit(r) ==
  /\ req[r].pc = "ratelimit"
  /\ LET id == req[r].agent.id
         rl == CheckAndConsume(buckets[id], now)
     IN  /\ buckets' = [buckets EXCEPT ![id] = rl.bucket]
         /\ IF rl.allowed
              THEN req' = [req EXCEPT ![r].pc = "parse", ![r].trace = Log(r, "ratelimit")]
              ELSE req' = [req EXCEPT ![r].pc = "done", ![r].trace = Log(r, "ratelimit"),
                             ![r].response = ErrorResponse(429, "Rate limit exceeded"),
                             ![r].headers = [remaining |-> rl.remaining,
                                             reset |-> rl.resetIn]]
  /\ UNCHANGED <<env, agents, deposits, now, issued, calls, reg>>

\* request.json() and the test that tx_hash is a non-empty string
ParseBody(r) ==
  /\ req[r].pc = "parse"
  /\ \E b \in Bodies :
       IF b.tx_hash = TxMissing
         THEN req' = [req EXCEPT ![r].pc = "done", ![r].body = b,
                ![r].trace = Log(r, "parse"),
                ![r].response = ErrorResponse(400, "Transaction hash (tx_hash) is required")]
         ELSE req' = [req EXCEPT ![r].pc = "dupcheck", ![r].body = b,
                ![r].trace = Log(r, "parse")]
  /\ UNCHANGED <<env, agents, deposits, buckets, now, issued, calls, reg>>

\* the duplicate read without toLowerCase()
ExistingDepositCaseSensitive(txHash) == \E d \in deposits : d.tx_hash = txHash

\* .from('deposits').select('id').eq('tx_hash', tx_hash.toLowerCase()).single()
ExistingDeposit(txHash) == \E d \in deposits : d.tx_hash = toLowerCase(txHash)

\* Math.min(body.amount || 10, 100)
TestAmount(body) ==
  Min(IF body.amount = 0 THEN TestDefaultAmount ELSE body.amount, TestAmountCap)

\* the test gate without the NODE_ENV test
TestModeGateAnyEnv(e, body) == body.test_mode = TRUE

\* process.env.NODE_ENV === 'development' && body.test_mode === true
TestModeGate(e, body) == e.NODE_ENV = "development" /\ body.test_mode = TRUE

\* a handler that inserts without verifying
RouteSkipVerify(e, claimed, body) ==
  IF claimed THEN "claimed"
  ELSE IF ~isBlockchainConfigured(e)
    THEN IF TestModeGate(e, body) THEN "test_insert" ELSE "unconfigured"
  ELSE "insert"

\* where the handler goes after the duplicate read: 'claimed' is what the
\* read found; then the branch on isBlockchainConfigured() and the test gate
Route(e, claimed, body) ==
  IF claimed THEN "claimed"
  ELSE IF ~isBlockchainConfigured(e)
    THEN IF TestModeGate(e, body) THEN "test_insert" ELSE "unconfigured"
  ELSE "verify"

\* the duplicate read and the branch that follows it
DupCheck(r) ==
  /\ req[r].pc = "dupcheck"
  /\ LET to == Route(env, ExistingDeposit(req[r].body.tx_hash), req[r].body)
     IN  IF to = "claimed"
           THEN req' = [req EXCEPT ![r].pc = "done", ![r].trace = Log(r, "dupcheck"),
                  ![r].response = ErrorResponse(400, "This transaction has already been claimed")]
         ELSE IF to = "unconfigured"
           THEN req' = [req EXCEPT ![r].pc = "done", ![r].trace = Log(r, "dupcheck"),
                  ![r].response = ErrorResponse(503,
                     "Wallet system not configured. Contact administrator.")]
         ELSE req' = [req EXCEPT ![r].pc = to, ![r].trace = Log(r, "dupcheck")]
  /\ UNCHANGED <<env, agents, deposits, buckets, now, issued, calls, reg>>

\* a deposits table without the unique constraint
UniqueViolationNever(row) == FALSE

\* the unique constraint on deposits.tx_hash
UniqueViolation(row) == \E d \in deposits : d.tx_hash = row.tx_hash

\* an insert that replaces the row holding the same tx_hash (upsert)
InsertRowUpsert(row) == {d \in deposits : d.tx_hash # row.tx_hash} \cup {row}

\* the table after .insert(row): a row that violates the constraint is refused
InsertRow(row) == IF UniqueViolation(row) THEN deposits ELSE deposits \cup {row}

\* the row the test-mode shortcut inserts
TestDepositRow(r) ==
  [id |-> r, agent_id |-> req[r].agent.id, tx_hash |-> toLowerCase(req[r].body.tx_hash),
   amount |-> TestAmount(req[r].body),
   from_address |-> <<"0","x","_","t","e","s","t","_","a","d","d","r","e","s","s">>,
   block_number |-> 0]

\* test mode: insert the test deposit; the result of the insert is not read
TestInsert(r) ==
  /\ req[r].pc = "test_insert"
  /\ deposits' = InsertRow(TestDepositRow(r))
  /\ IF UniqueViolation(TestDepositRow(r))
       THEN req' = [req EXCEPT ![r].pc = "test_update",
                               ![r].trace = Log(r, "insert_rejected")]
       ELSE req' = [req EXCEPT ![r].pc = "test_update", ![r].trace = Log(r, "insert")]
  /\ UNCHANGED <<env, agents, buckets, now, issued, calls, reg>>

\* the balance the handler writes: the balance validateApiKey read plus the amount
NewBalance(r, amount) == req[r].agent.balance_usdc + amount

\* test mode: update the agent's balance and answer success
TestUpdate(r) ==
  /\ req[r].pc = "test_update"
  /\ agents' = [agents EXCEPT
                  ![req[r].agent.id].balance_usdc = NewBalance(r, TestAmount(req[r].body)),
                  ![req[r].agent.id].status = "online",
                  ![req[r].agent.id].last_seen = now]
  /\ req' = [req EXCEPT ![r].pc = "done", ![r].trace = Log(r, "credit"),
                        ![r].response = Success(TestAmount(req[r].body))]
  /\ UNCHANGED <<env, deposits, buckets, now, issued, calls, reg>>

\* a handler that remembers a reference whose verification failed by
\* inserting a row for it
VerifyRecordsFailure(r) ==
  /\ req[r].pc = "verify"
  /\ \E reply \in RpcReplies(req[r].body.tx_hash) :
       LET tx == req[r].body.tx_hash
           v  == verifyUSDCTransfer(tx, env, reply)
           failed == reply.kind \in {"error", "network"}
           pending == reply.kind = "null" /\ ChainReceipt(tx).kind # "null"
           t  == IF VerifyCallsRpc(tx, env)
                   THEN Log(r, "format") \o <<"rpc">>
                          \o (IF failed THEN <<"rpc_failed">> ELSE <<>>)
                          \o (IF pending THEN <<"rpc_pending">> ELSE <<>>)
                   ELSE Log(r, "format")
       IN  /\ (~VerifyCallsRpc(tx, env) => reply = ChainReceipt(tx))
           /\ IF v.valid
                THEN /\ req' = [req EXCEPT ![r].pc = "insert", ![r].verification = v,
                                           ![r].trace = t]
                     /\ deposits' = deposits
                ELSE /\ req' = [req EXCEPT ![r].pc = "done", ![r].verification = v,
                                           ![r].trace = t,
                                           ![r].response = ErrorResponse(400, v.error)]
                     /\ deposits' =
                          InsertRow([id |-> r, agent_id |-> req[r].agent.id,
                                     tx_hash |-> toLowerCase(tx), amount |-> 0,
                                     from_address |-> NoAddress, block_number |-> 0])
  /\ UNCHANGED <<env, agents, buckets, now, issued, calls, reg>>

\* verifyUSDCTransfer(tx_hash) and the test of verification.valid
Verify(r) ==
  /\ req[r].pc = "verify"
  /\ \E reply \in RpcReplies(req[r].body.tx_hash) :
       LET tx == req[r].body.tx_hash
           v  == verifyUSDCTransfer(tx, env, reply)
           failed == reply.kind \in {"error", "network"}
           pending == reply.kind = "null" /\ ChainReceipt(tx).kind # "null"
           t  == IF VerifyCallsRpc(tx, env)
                   THEN Log(r, "format") \o <<"rpc">>
                          \o (IF failed THEN <<"rpc_failed">> ELSE <<>>)
                          \o (IF pending THEN <<"rpc_pending">> ELSE <<>>)
                   ELSE Log(r, "format")
       IN  /\ (~VerifyCallsRpc(tx, env) => reply = ChainReceipt(tx))
           /\ IF v.valid
                THEN req' = [req EXCEPT ![r].pc = "insert", ![r].verification = v,
                                        ![r].trace = t]
                ELSE req' = [req EXCEPT ![r].pc = "done", ![r].verification = v,
                                        ![r].trace = t,
                                        ![r].response = ErrorResponse(400, v.error)]
  /\ UNCHANGED <<env, agents, deposits, buckets, now, issued, calls, reg>>

\* verifyUSDCTransfer awaits fetch(), which rpcCall calls without a timeout
\* or an abort signal: while the endpoint does not answer the request waits
VerifyHangs(r) ==
  /\ req[r].pc = "verify"
  /\ VerifyCallsRpc(req[r].body.tx_hash, env)
  /\ req' = [req EXCEPT ![r].pc = "rpc_wait",
                        ![r].trace = Log(r, "format") \o <<"rpc">>]
  /\ UNCHANGED <<env, agents, deposits, buckets, now, issued, calls, reg>>

\* crediting the amount the request body states
CreditAmountFromBody(r) == req[r].body.amount

\* the amount the handler records and credits on the verified path
CreditAmount(r) == req[r].verification.amount

\* a row that keeps the reference as the request spelled it
DepositRowAsSubmitted(r) ==
  [id |-> r, agent_id |-> req[r].agent.id, tx_hash |-> req[r].body.tx_hash,
   amount |-> CreditAmount(r), from_address |-> req[r].verification.from,
   block_number |-> req[r].verification.blockNumber]

\* the row the handler inserts after verification
DepositRow(r) ==
  [id |-> r, agent_id |-> req[r].agent.id, tx_hash |-> toLowerCase(req[r].body.tx_hash),
   amount |-> CreditAmount(r), from_address |-> req[r].verification.from,
   block_number |-> req[r].verification.blockNumber]

\* insert into deposits; error code 23505 is answered 'already claimed'
InsertDeposit(r) ==
  /\ req[r].pc = "insert"
  /\ deposits' = InsertRow(DepositRow(r))
  /\ IF UniqueViolation(DepositRow(r))
       THEN req' = [req EXCEPT ![r].pc = "done", ![r].trace = Log(r, "insert_rejected"),
              ![r].response = ErrorResponse(400, "This transaction has already been claimed")]
       ELSE req' = [req EXCEPT ![r].pc = "update", ![r].trace = Log(r, "insert")]
  /\ UNCHANGED <<env, agents, buckets, now, issued, calls, reg>>

\* update the agent's balance and answer success
UpdateBalance(r) ==
  /\ req[r].pc = "update"
  /\ agents' = [agents EXCEPT
                  ![req[r].agent.id].balance_usdc = NewBalance(r, CreditAmount(r)),
                  ![req[r].agent.id].status = "online",
                  ![req[r].agent.id].last_seen = now]
  /\ req' = [req EXCEPT ![r].pc = "done", ![r].trace = Log(r, "credit"),
                        ![r].response = Success(CreditAmount(r))]
  /\ UNCHANGED <<env, deposits, buckets, now, issued, calls, reg>>

\* the store fails the insert with an error other than 23505
InsertDepositFails(r) ==
  /\ req[r].pc = "insert"
  /\ req' = [req EXCEPT ![r].pc = "done", ![r].trace = Log(r, "insert_error"),
                        ![r].response = ErrorResponse(500, "Failed to process deposit")]
  /\ UNCHANGED <<env, agents, deposits, buckets, now, issued, calls, reg>>

\* the store fails the balance update: updateError
UpdateBalanceFails(r) ==
  /\ req[r].pc = "update"
  /\ req' = [req EXCEPT ![r].pc = "done", ![r].trace = Log(r, "update_error"),
       ![r].response = ErrorResponse(500,
          "Deposit recorded but balance update failed. Contact support.")]
  /\ UNCHANGED <<env, agents, deposits, buckets, now, issued, calls, reg>>

Handler(r) ==
  \/ Submit(r)
  \/ AuthSelect(r)
  \/ AuthSelectFails(r)
  \/ AuthTouch(r)
  \/ CheckRateLimit(r)
  \/ ParseBody(r)
  \/ DupCheck(r)
  \/ TestInsert(r)
  \/ TestUpdate(r)
  \/ Verify(r)
  \/ VerifyHangs(r)
  \/ InsertDeposit(r)
  \/ InsertDepositFails(r)
  \/ UpdateBalance(r)
  \/ UpdateBalanceFails(r)

Next == \E r \in Requests : Handler(r)

Spec == Init /\ [][Next]_vars

\* the handler of every request keeps running: the runtime resumes each
\* awaited call as soon as it settles, and clients send their requests
SpecLive == Spec /\ \A r \in Requests : WF_vars(Handler(r))

(***************************************************************************)
(* POST /api/agents/register and the credential operations                 *)
(***************************************************************************)
\* the row the register route that stores the key itself inserts: api_key
\* holds the key, no hash and no lookup prefix are written
PlaintextAgentRow(name, apiKey) ==
  [name |-> name,
   api_key |-> apiKey,
   api_key_hash |-> Null,
   api_key_prefix |-> Null,
   balance_usdc |-> 0,
   status |-> "offline",
   last_seen |-> -1]

\* the address registration requests come from
ClientIp == "203.0.113.7"

\* body.name: absent, and two names that pass the route's checks
NoName == ""

Names == {"alice", "bob"}

\* the ids the store gives to new rows, in the order it gives them
AgentIds == <<"agentA", "agentB">>

\* the keys generateApiKey may draw: two of them share the lookup prefix
KeyPool == {KeyA, KeyB, KeyForged}

\* the register route: rate limit by IP, the name checks, the key, the
\* insert and the 201 response that carries the key.  'plaintext' tells
\* which of the two routes of the repository runs: the one that stores
\* hash and prefix, or the one that stores the key.
Register(name, plaintext) ==
  LET rl == CheckAndConsume(buckets[ClientIp], now)
      taken == \E id \in DOMAIN agents : agents[id].name = name
  IN  /\ buckets' = [buckets EXCEPT ![ClientIp] = rl.bucket]
      /\ IF ~rl.allowed \/ name = NoName \/ taken
           THEN UNCHANGED <<agents, issued, calls, reg>>
           ELSE /\ Cardinality(DOMAIN agents) < Len(AgentIds)
                /\ \E apiKey \in KeyPool \ {i.api_key : i \in issued} :
                     LET id == AgentIds[Cardinality(DOMAIN agents) + 1]
                         row == IF plaintext
                                  THEN PlaintextAgentRow(name, apiKey)
                                  ELSE AgentRow(name, apiKey, id)
                     IN  /\ agents' = (id :> row) @@ agents
                         /\ issued' = issued \cup {[agent_id |-> id, api_key |-> apiKey]}
      /\ UNCHANGED <<env, deposits, now, req, calls, reg>>

\* the register route that stores api_key_hash and api_key_prefix
RegisterHashed(name) == Register(name, FALSE)

\* the register route that stores api_key
RegisterPlaintext(name) == Register(name, TRUE)

\* the register route when the store refuses the insert: 500, nothing stored
RegisterInsertFails(name) ==
  LET rl == CheckAndConsume(buckets[ClientIp], now)
  IN  /\ rl.allowed /\ name # NoName
      /\ ~\E id \in DOMAIN agents : agents[id].name = name
      /\ buckets' = [buckets EXCEPT ![ClientIp] = rl.bucket]
      /\ UNCHANGED <<env, agents, deposits, now, req, issued, calls, reg>>

\* token counts the 'register' bucket of the address may hold at the start:
\* enough for one registration, or for two
InitialRegisterTokens == {1, 2}

\* no agent registered yet, one bucket for the registering address
InitAuth ==
  /\ env = [NODE_ENV |-> "production", CLAWDBAR_TREASURY_ADDRESS |-> TreasuryAddress]
  /\ agents = <<>>
  /\ deposits = {}
  /\ \E n \in InitialRegisterTokens :
       buckets = [ip \in {ClientIp} |-> [tokens |-> n * TOKEN, last |-> 0]]
  /\ now = 0
  /\ req = [r \in Requests |-> Idle]
  /\ issued = {}
  /\ calls = <<>>
  /\ reg = <<>>

\* registration, and validateApiKey as the requests of the handler call it
NextAuth ==
  \/ \E name \in Names \cup {NoName} :
       \/ RegisterHashed(name)
       \/ RegisterPlaintext(name)
       \/ RegisterInsertFails(name)
  \/ \E r \in Requests :
       \/ Submit(r)
       \/ AuthSelect(r)
       \/ AuthSelectFails(r)
       \/ AuthTouch(r)

SpecAuth == InitAuth /\ [][NextAuth]_vars

(***************************************************************************)
(* POST /api/agents/register step by step: each await of the store is a    *)
(* point where another registration may run                                *)
(***************************************************************************)
\* number of registration requests that may be in flight together
NumRegistrations == 2

Registrations == 1..NumRegistrations

RegResponse(status, error, apiKey, agentId) ==
  [status |-> status, error |-> error, api_key |-> apiKey, agent_id |-> agentId]

NoRegResponse == RegResponse(0, "", NoKey, "")

RegIdle == [pc |-> "idle", name |-> NoName, plaintext |-> FALSE, response |-> NoRegResponse]

\* the name is in the agents table
NameTaken(name) == \E id \in DOMAIN agents : agents[id].name = name

NameConflict ==
  RegResponse(409, "An agent with this name already exists. Choose a different name.",
              NoKey, "")

CreateFailed == RegResponse(500, "Failed to create agent", NoKey, "")

InitRegister ==
  /\ env = [NODE_ENV |-> "production", CLAWDBAR_TREASURY_ADDRESS |-> TreasuryAddress]
  /\ agents = <<>>
  /\ deposits = {}
  /\ \E n \in InitialRegisterTokens :
       buckets = [ip \in {ClientIp} |-> [tokens |-> n * TOKEN, last |-> 0]]
  /\ now = 0
  /\ req = [r \in Requests |-> Idle]
  /\ issued = {}
  /\ calls = <<>>
  /\ reg = [q \in Registrations |-> RegIdle]

\* a route that reads the body and checks body.name before it asks the limiter
RegStartValidatesFirst(q) ==
  /\ reg[q].pc = "idle"
  /\ \E name \in Names \cup {NoName}, plaintext \in BOOLEAN :
       LET rl == CheckAndConsume(buckets[ClientIp], now)
       IN  IF name = NoName
             THEN /\ buckets' = buckets
                  /\ reg' = [reg EXCEPT ![q].pc = "done", ![q].name = name,
                                 ![q].plaintext = plaintext,
                                 ![q].response = RegResponse(400, "Agent name is required", NoKey, "")]
             ELSE /\ buckets' = [buckets EXCEPT ![ClientIp] = rl.bucket]
                  /\ IF ~rl.allowed
                       THEN reg' = [reg EXCEPT ![q].pc = "done", ![q].name = name,
                                      ![q].plaintext = plaintext,
                                      ![q].response = RegResponse(429, "Rate limit exceeded", NoKey, "")]
                       ELSE reg' = [reg EXCEPT ![q].pc = "namecheck", ![q].name = name,
                                               ![q].plaintext = plaintext]
  /\ UNCHANGED <<env, agents, deposits, now, req, issued, calls>>

\* the request arrives: checkIPRateLimit, request.json() and the checks of
\* body.name; 'plaintext' tells which of the two routes serves it
RegStart(q) ==
  /\ reg[q].pc = "idle"
  /\ \E name \in Names \cup {NoName}, plaintext \in BOOLEAN :
       LET rl == CheckAndConsume(buckets[ClientIp], now)
       IN  /\ buckets' = [buckets EXCEPT ![ClientIp] = rl.bucket]
           /\ IF ~rl.allowed
                THEN reg' = [reg EXCEPT ![q].pc = "done", ![q].name = name,
                               ![q].plaintext = plaintext,
                               ![q].response = RegResponse(429, "Rate limit exceeded", NoKey, "")]
              ELSE IF name = NoName
                THEN reg' = [reg EXCEPT ![q].pc = "done", ![q].name = name,
                               ![q].plaintext = plaintext,
                               ![q].response = RegResponse(400, "Agent name is required", NoKey, "")]
              ELSE reg' = [reg EXCEPT ![q].pc = "namecheck", ![q].name = name,
                                      ![q].plaintext = plaintext]
  /\ UNCHANGED <<env, agents, deposits, now, req, issued, calls>>

\* .from('agents').select('id').eq('name', sanitizedName).single()
RegNameCheck(q) ==
  /\ reg[q].pc = "namecheck"
  /\ IF NameTaken(reg[q].name)
       THEN reg' = [reg EXCEPT ![q].pc = "done", ![q].response = NameConflict]
       ELSE reg' = [reg EXCEPT ![q].pc = "insert"]
  /\ UNCHANGED <<env, agents, deposits, buckets, now, req, issued, calls>>

\* the select fails: its error is not read, 'existing' is null and the
\* route goes on to the insert
RegNameCheckFails(q) ==
  /\ reg[q].pc = "namecheck"
  /\ reg' = [reg EXCEPT ![q].pc = "insert"]
  /\ UNCHANGED <<env, agents, deposits, buckets, now, req, issued, calls>>

\* an insert that the agents table accepts whatever name other rows hold
RegInsertNoConstraint(q) ==
  /\ reg[q].pc = "insert"
  /\ Cardinality(DOMAIN agents) < Len(AgentIds)
  /\ \E apiKey \in KeyPool \ {i.api_key : i \in issued} :
       LET id == AgentIds[Cardinality(DOMAIN agents) + 1]
           row == IF reg[q].plaintext
                    THEN PlaintextAgentRow(reg[q].name, apiKey)
                    ELSE AgentRow(reg[q].name, apiKey, id)
       IN  /\ agents' = (id :> row) @@ agents
           /\ issued' = issued \cup {[agent_id |-> id, api_key |-> apiKey]}
           /\ reg' = [reg EXCEPT ![q].pc = "done",
                                 ![q].response = RegResponse(201, "", apiKey, id)]
  /\ UNCHANGED <<env, deposits, buckets, now, req, calls>>

\* generateApiKey, the hash and the prefix, the insert and the answer: 201
\* with the key, or 500 when the unique constraint on name refuses the row
RegInsert(q) ==
  /\ reg[q].pc = "insert"
  /\ IF NameTaken(reg[q].name)
       THEN /\ reg' = [reg EXCEPT ![q].pc = "done", ![q].response = CreateFailed]
            /\ UNCHANGED <<agents, issued>>
       ELSE /\ Cardinality(DOMAIN agents) < Len(AgentIds)
            /\ \E apiKey \in KeyPool \ {i.api_key : i \in issued} :
                 LET id == AgentIds[Cardinality(DOMAIN agents) + 1]
                     row == IF reg[q].plaintext
                              THEN PlaintextAgentRow(reg[q].name, apiKey)
                              ELSE AgentRow(reg[q].name, apiKey, id)
                 IN  /\ agents' = (id :> row) @@ agents
                     /\ issued' = issued \cup {[agent_id |-> id, api_key |-> apiKey]}
                     /\ reg' = [reg EXCEPT ![q].pc = "done",
                                           ![q].response = RegResponse(201, "", apiKey, id)]
  /\ UNCHANGED <<env, deposits, buckets, now, req, calls>>

\* the store fails the insert for another reason: 500, nothing stored
RegInsertFails(q) ==
  /\ reg[q].pc = "insert"
  /\ reg' = [reg EXCEPT ![q].pc = "done", ![q].response = CreateFailed]
  /\ UNCHANGED <<env, agents, deposits, buckets, now, req, issued, calls>>

NextRegister ==
  \E q \in Registrations :
    \/ RegStart(q)
    \/ RegNameCheck(q)
    \/ RegNameCheckFails(q)
    \/ RegInsert(q)
    \/ RegInsertFails(q)

SpecRegister == InitRegister /\ [][NextRegister]_vars

(***************************************************************************)
(* The limiter alone: one bucket, the clock, and calls of CheckAndConsume   *)
(***************************************************************************)
\* the clock advances by 6 minutes or by an hour, up to MaxTime minutes
TickMinutes == {6, 60}

MaxTime == 72

\* number of calls of CheckAndConsume in one history
MaxCalls == 8

\* the bucket of one subject, created full
InitBucket ==
  /\ env = [NODE_ENV |-> "production", CLAWDBAR_TREASURY_ADDRESS |-> TreasuryAddress]
  /\ agents = <<>>
  /\ deposits = {}
  /\ buckets = [ip \in {ClientIp} |-> [tokens |-> DEPOSIT_CAPACITY * TOKEN, last |-> 0]]
  /\ now = 0
  /\ req = [r \in Requests |-> Idle]
  /\ issued = {}
  /\ calls = <<>>
  /\ reg = <<>>

\* wall-clock time passes
Tick ==
  /\ \E d \in TickMinutes : now + d <= MaxTime /\ now' = now + d
  /\ UNCHANGED <<env, agents, deposits, buckets, req, issued, calls, reg>>

\* one call of CheckAndConsume for the subject at the current time
Call ==
  /\ Len(calls) < MaxCalls
  /\ LET rl == CheckAndConsume(buckets[ClientIp], now)
     IN  /\ buckets' = [buckets EXCEPT ![ClientIp] = rl.bucket]
         /\ calls' = Append(calls, [t |-> now, allowed |-> rl.allowed,
                                    left |-> rl.bucket.tokens])
  /\ UNCHANGED <<env, agents, deposits, now, req, issued, reg>>

NextBucket == Tick \/ Call

SpecBucket == InitBucket /\ [][NextBucket]_vars

(***************************************************************************)
(* Properties                                                              *)
(***************************************************************************)
Done(r) == req[r].pc = "done"

Has(r, event) == \E i \in 1..Len(req[r].trace) : req[r].trace[i] = event

\* r inserted a deposits row / r wrote a balance
Inserted(r) == Has(r, "insert")

Credited(r) == Has(r, "credit")

\* r has read its body and the body names a reference
Parsed(r) == Has(r, "parse") /\ req[r].body.tx_hash # TxMissing

Ref(r) == toLowerCase(req[r].body.tx_hash)

RecordsOf(h) == {d \in deposits : d.tx_hash = h}

AlreadyClaimed == ErrorResponse(400, "This transaction has already been claimed")

\* the requests for reference h that came out of chain verification valid
VerifiedFor(h) == {r \in Requests : Parsed(r) /\ Ref(r) = h /\ req[r].verification.valid}

\* the store failed a write of r (depositError other than 23505, updateError)
StoreFailed(r) == Has(r, "insert_error") \/ Has(r, "update_error")

\* C1: of the deposit requests for one reference that passed chain
\* verification (two or more of them raced past the duplicate read), at most
\* one inserts a DepositRecord and at most one writes a balance; when all of
\* them have finished and the store failed none of their writes, exactly one
\* DepositRecord holds the reference, exactly one request wrote a balance,
\* by the verified amount, and every other one ended with 'already claimed'.
C1_ConcurrentSameTxCreditedOnce ==
  \A r \in Requests :
    LET S == VerifiedFor(Ref(r))
    IN  r \in S =>
          /\ Cardinality(RecordsOf(Ref(r))) <= 1
          /\ Cardinality({q \in S : Inserted(q)}) <= 1
          /\ Cardinality({q \in S : Credited(q)}) <= 1
          /\ (\A q \in S : Done(q) /\ ~StoreFailed(q)) =>
               /\ Cardinality(RecordsOf(Ref(r))) = 1
               /\ Cardinality({q \in S : Credited(q)}) = 1
               /\ \A q \in S :
                    IF Credited(q)
                      THEN /\ Inserted(q)
                           /\ req[q].response = Success(req[q].verification.amount)
                           /\ \E d \in RecordsOf(Ref(r)) :
                                d.id = q /\ d.amount = req[q].verification.amount
                      ELSE req[q].response = AlreadyClaimed /\ ~Inserted(q)

\* two requests of different agents raced on one reference: one credited,
\* the other refused by the unique constraint
C1_Witness ==
  \E r1, r2 \in Requests :
    /\ r1 # r2 /\ Done(r1) /\ Done(r2)
    /\ r1 \in VerifiedFor(Ref(r1)) /\ r2 \in VerifiedFor(Ref(r1))
    /\ req[r1].agent.id # req[r2].agent.id
    /\ Credited(r1) /\ Has(r2, "insert_rejected")

\* C2 (as claimed): a finished request inserted a DepositRecord if and only
\* if it wrote the balance.
C2_CreditIsAtomic == \A r \in Requests : Done(r) => (Inserted(r) <=> Credited(r))

\* C3 (as claimed): no two DepositRecords share a transaction hash, and a
\* request writes a balance only if it is the one that recorded the hash: a
\* request whose insert found the hash already recorded credits nothing.
C3_HashCreditedOnce ==
  /\ \A d1, d2 \in deposits : d1.tx_hash = d2.tx_hash => d1 = d2
  /\ \A r \in Requests : Credited(r) => Inserted(r)

\* C4: a request submitted after another one finished with success for the
\* same reference is, once admitted to the handler body, rejected with
\* 'already claimed' at the duplicate read: no chain call, no insert, no
\* balance write; with the treasury configured the first request had
\* inserted the record and added the verified amount.
C4_SequentialResubmitRejected ==
  \A r1, r2 \in Requests :
    ( /\ Done(r1) /\ Done(r2) /\ r1 \in req[r2].after
      /\ req[r1].response.status = 200
      /\ Parsed(r2) /\ Ref(r2) = Ref(r1) ) =>
        /\ req[r2].response = AlreadyClaimed
        /\ ~Has(r2, "format") /\ ~Has(r2, "rpc")
        /\ ~Has(r2, "insert") /\ ~Has(r2, "insert_rejected") /\ ~Credited(r2)
        /\ Cardinality(RecordsOf(Ref(r1))) = 1
        /\ isBlockchainConfigured(env) =>
             /\ Inserted(r1) /\ Credited(r1)
             /\ req[r1].response.amount_credited = req[r1].verification.amount

\* the same reference in another letter case, resubmitted after the credit
C4_Witness ==
  \E r1, r2 \in Requests :
    /\ Done(r1) /\ Done(r2) /\ r1 \in req[r2].after
    /\ req[r1].response.status = 200 /\ isBlockchainConfigured(env)
    /\ Parsed(r2) /\ Ref(r2) = Ref(r1)
    /\ req[r2].body.tx_hash # req[r1].body.tx_hash
    /\ req[r2].response = AlreadyClaimed

\* the amount the chain moved to the treasury in each transaction (the data
\* word of its transfer log), stated apart from the parsing code
OnChainAmount(h) ==
  CASE h = TxGood -> 5000000
    [] h = TxGood2 -> 7000000
    [] h = TxSmall -> 500000
    [] h = TxBelowMin -> 999999
    [] h = TxMin -> 1000000
    [] h = TxMax -> 1000000000
    [] h = TxAboveMax -> 1000000001
    [] h = TxLate -> 7000000
    [] OTHER -> 0

\* C5: with the treasury configured the recorded and credited amount is the
\* amount of the transfer log, whatever 'amount' and 'test_mode' the body
\* carries, and the branch taken after the duplicate read is the same for
\* bodies that differ only in 'amount' and 'test_mode'.
C5_AmountFromChainOnly ==
  /\ [](isBlockchainConfigured(env) =>
          /\ \A d \in deposits : d.amount = OnChainAmount(d.tx_hash)
          /\ \A r \in Requests :
               Credited(r) => req[r].response.amount_credited = OnChainAmount(Ref(r))
          /\ \A h \in TxRefs : \A v1, v2 \in BodyVariants :
               LET claimed == ExistingDeposit(h)
               IN  Route(env, claimed, Body(h, v1)) = Route(env, claimed, Body(h, v2)))
  /\ [][isBlockchainConfigured(env) =>
          \A r \in Requests :
            (~Credited(r) /\ Credited(r)') =>
              agents'[req[r].agent.id].balance_usdc
                = req[r].agent.balance_usdc + OnChainAmount(Ref(r))]_vars

\* a request that asked for test mode and 200 USDC was credited the 5 USDC
\* of the transfer log
C5_Witness ==
  \E r \in Requests :
    /\ isBlockchainConfigured(env) /\ Done(r) /\ Credited(r)
    /\ req[r].body.test_mode /\ req[r].body.amount = BodyAmount200
    /\ req[r].response.amount_credited = 5000000
    /\ \E d \in deposits : d.id = r /\ d.amount = 5000000

\* r is on, or went through, the test-mode shortcut
OnTestPath(r) ==
  \/ req[r].pc \in {"test_insert", "test_update"}
  \/ (Credited(r) /\ ~Has(r, "rpc"))

\* C6: a request writes a balance either after its own chain verification of
\* its reference returned valid, or on the test-mode shortcut, and the
\* shortcut is entered only with NODE_ENV = 'development', no treasury
\* address and test_mode = true in the body; balances change in no other way.
C6_UnverifiedCreditOnlyInTestMode ==
  /\ [](\A r \in Requests :
          /\ OnTestPath(r) =>
               /\ env.NODE_ENV = "development"
               /\ ~isBlockchainConfigured(env)
               /\ req[r].body.test_mode = TRUE
          /\ Credited(r) =>
               \/ OnTestPath(r)
               \/ /\ Has(r, "rpc") /\ req[r].verification.valid
                  /\ req[r].verification
                       = verifyUSDCTransfer(req[r].body.tx_hash, env,
                                            ChainReceipt(req[r].body.tx_hash)))
  /\ [][\A id \in DOMAIN agents :
          agents'[id].balance_usdc # agents[id].balance_usdc =>
            \E r \in Requests :
              /\ req[r].agent.id = id /\ ~Credited(r) /\ Credited(r)'
              /\ (req[r].pc = "update" \/ req[r].pc = "test_update")]_vars

\* a credit through the test-mode shortcut
C6_Witness ==
  \E r \in Requests :
    /\ Done(r) /\ Credited(r) /\ OnTestPath(r)
    /\ agents[req[r].agent.id].balance_usdc > 0

Balances == [id \in DOMAIN agents |-> agents[id].balance_usdc]

\* the answers of the gates: credential, rate limit, missing reference,
\* duplicate, unconfigured wallet, and every failed verification
Rejection(resp) == resp.status \in {400, 401, 429, 503}

\* C7: the step that ends a request with a rejection changes no balance and
\* no DepositRecord, and the request made no insert and no balance write
\* before it.
C7_RejectionChangesNothing ==
  [][\A r \in Requests :
       (~Done(r) /\ Done(r)' /\ Rejection(req'[r].response)) =>
         /\ deposits' = deposits
         /\ Balances' = Balances
         /\ ~Inserted(r) /\ ~Credited(r)]_vars

\* a request refused by the unique constraint at insertion time, after the
\* chain call, while the request that won the insert has its record stored
C7_Witness ==
  \E r \in Requests :
    /\ Done(r) /\ Has(r, "rpc") /\ Has(r, "insert_rejected")
    /\ req[r].response = AlreadyClaimed
    /\ \E d \in RecordsOf(Ref(r)) : d.id # r

\* the submitted references that are not '0x' and 64 hex digits
MalformedRefs == {TxTest, TxUpperX}

FormatError == ErrorResponse(400, "Invalid transaction hash format")

Before(r, a, b) ==
  \E i, j \in 1..Len(req[r].trace) :
    i < j /\ req[r].trace[i] = a /\ req[r].trace[j] = b

FailedRefs == {TxFailed}

\* C10: a request whose chain call met a receipt with a status other than
\* '0x1' ends with 'Transaction failed' (or with the error of the call when
\* the call itself failed), inserts and credits nothing, and no
\* DepositRecord is ever stored for such a transaction on the verified path.
C10_FailedReceiptRejected ==
  /\ \A r \in Requests :
       (Has(r, "rpc") /\ Ref(r) \in FailedRefs /\ req[r].pc # "rpc_wait") =>
         /\ Done(r)
         /\ req[r].response \in {ErrorResponse(400, "Transaction failed"),
                                 ErrorResponse(400, "RPC Error"),
                                 ErrorResponse(400, "fetch failed")}
         /\ ~req[r].verification.valid
         /\ ~Inserted(r) /\ ~Credited(r)
  /\ isBlockchainConfigured(env) => \A h \in FailedRefs : RecordsOf(h) = {}

\* the failed receipt carries a transfer log from the token contract to the
\* treasury that the log loop alone would accept
C10_Witness ==
  \E r \in Requests :
    /\ Done(r) /\ Has(r, "rpc") /\ Ref(r) = TxFailed
    /\ req[r].response = ErrorResponse(400, "Transaction failed")
    /\ VerifyLogs(ChainReceipt(TxFailed).receipt, getTreasuryAddress(env)).valid

\* the call of r to the chain endpoint has returned (with a receipt, with
\* null or with an error)
RpcReturned(r) == Has(r, "rpc") /\ req[r].pc # "rpc_wait"

\* the call of r to the chain endpoint failed: RPC error or network failure
RpcFailed(r) == Has(r, "rpc_failed")

\* the call of r returned null for a transaction that is mined later
RpcPending(r) == Has(r, "rpc_pending")

InfrastructureErrors == {ErrorResponse(400, "RPC Error"), ErrorResponse(400, "fetch failed")}

\* the three conditions on a log entry, stated on the entry's text: emitted
\* by the token contract, first topic the Transfer signature, and the last
\* 40 hex digits of the third topic the treasury address
LogToTreasury(log) ==
  /\ toLowerCase(log.address) = toLowerCase(USDC_CONTRACT)
  /\ Len(log.topics) >= 3
  /\ log.topics[1] = TRANSFER_EVENT_SIGNATURE
  /\ toLowerCase(SubSeq(log.topics[3], 27, 66)) = toLowerCase(SubSeq(TreasuryAddress, 3, 42))

\* the chain holds a successful receipt for h / one of its logs is a token
\* transfer to the treasury
Confirmed(h) ==
  ChainReceipt(h).kind = "receipt" /\ ChainReceipt(h).receipt.status = <<"0","x","1">>

HasTreasuryTransfer(h) ==
  /\ ChainReceipt(h).kind = "receipt"
  /\ \E i \in 1..Len(ChainReceipt(h).receipt.logs) :
       LogToTreasury(ChainReceipt(h).receipt.logs[i])

\* the references in use, as the chain reads them, and those of them with a
\* successful receipt / with a token transfer to the treasury
ChainRefs == {toLowerCase(h) : h \in TxRefs}

ConfirmedRefs == {h \in ChainRefs : Confirmed(h)}

TreasuryTransferRefs == {h \in ChainRefs : HasTreasuryTransfer(h)}

NoTransferError ==
  ErrorResponse(400, "No USDC transfer to treasury address found in transaction")

\* C11: chain verification returns valid only for a receipt with a log that
\* is emitted by the token contract, carries the Transfer signature and
\* names the treasury as recipient; a request whose call returned a
\* successful receipt without such a log ends with the no-matching-transfer
\* reason, inserts and credits nothing, whoever sent the funds and whatever
\* other transfers the receipt holds; with the treasury configured no
\* DepositRecord is stored for a transaction without such a log.
C11_OnlyTransferToTreasuryVerifies ==
  /\ \A r \in Requests :
       /\ req[r].verification.valid => Ref(r) \in TreasuryTransferRefs
       /\ (RpcReturned(r) /\ ~RpcFailed(r) /\ Ref(r) \in ConfirmedRefs
             /\ Ref(r) \notin TreasuryTransferRefs) =>
            /\ Done(r) /\ req[r].response = NoTransferError
            /\ ~Inserted(r) /\ ~Credited(r)
       /\ (RpcReturned(r) /\ Ref(r) \notin TreasuryTransferRefs) =>
            Done(r) /\ ~Inserted(r) /\ ~Credited(r)
  /\ isBlockchainConfigured(env) => \A d \in deposits : d.tx_hash \in TreasuryTransferRefs

\* a receipt whose three logs each miss one of the three conditions is
\* refused, and in the same run a receipt whose transfer to the treasury
\* stands behind other logs is or can be credited
C11_Witness ==
  \E r \in Requests :
    /\ Done(r) /\ RpcReturned(r) /\ Ref(r) = TxNoTransfer
    /\ Len(ChainReceipt(TxNoTransfer).receipt.logs) = 3
    /\ req[r].response = NoTransferError
    /\ HasTreasuryTransfer(TxGood2) /\ ~LogToTreasury(ChainReceipt(TxGood2).receipt.logs[1])

\* the amount bound errors
OutOfBounds ==
  {ErrorResponse(400, "Minimum deposit is $1 USDC"),
   ErrorResponse(400, "Maximum deposit is $1000 USDC")}

\* C12: of the requests whose call returned a successful receipt with a
\* transfer to the treasury, those with an amount from 1.00 to 1000.00 USDC
\* (1000000 to 1000000000 at 6 decimals), bounds included, pass verification
\* and every other one ends with the minimum or the maximum error and
\* inserts and credits nothing; every DepositRecord of the verified path
\* holds an amount within the bounds.
C12_AmountWithinBounds ==
  /\ \A r \in Requests :
       (RpcReturned(r) /\ ~RpcFailed(r) /\ ~RpcPending(r) /\ Ref(r) \in ConfirmedRefs
          /\ Ref(r) \in TreasuryTransferRefs) =>
         LET a == OnChainAmount(Ref(r))
         IN  /\ (1000000 <= a /\ a <= 1000000000) =>
                  req[r].verification.valid /\ req[r].verification.amount = a
             /\ a < 1000000 =>
                  /\ Done(r) /\ ~Inserted(r) /\ ~Credited(r)
                  /\ req[r].response = ErrorResponse(400, "Minimum deposit is $1 USDC")
             /\ a > 1000000000 =>
                  /\ Done(r) /\ ~Inserted(r) /\ ~Credited(r)
                  /\ req[r].response = ErrorResponse(400, "Maximum deposit is $1000 USDC")
  /\ isBlockchainConfigured(env) =>
       \A d \in deposits : 1000000 <= d.amount /\ d.amount <= 1000000000

\* exactly 1.00 and exactly 1000.00 USDC were both credited
C12_Witness ==
  \E r1, r2 \in Requests :
    /\ Done(r1) /\ Credited(r1) /\ Ref(r1) = TxMin
    /\ req[r1].response = Success(1000000)
    /\ Done(r2) /\ Credited(r2) /\ Ref(r2) = TxMax
    /\ req[r2].response = Success(1000000000)

\* the references for which the chain holds a receipt
ReceiptRefs == {h \in ChainRefs : ChainReceipt(h).kind = "receipt"}

\* why the deposit operation refuses r, read off the request, the store and
\* the chain in the order of the handler's gates: the duplicate read or the
\* unique constraint found the reference recorded; the reference is
\* malformed; the call to the endpoint failed; the chain has no receipt; the
\* receipt reports failure; no log is a transfer to the treasury; the amount
\* is out of bounds.  "none" when nothing stands against the deposit.
Cause(r) ==
  IF Has(r, "insert_rejected") \/ (Has(r, "dupcheck") /\ ~Has(r, "format"))
    THEN "already_claimed"
  ELSE IF req[r].body.tx_hash \in MalformedRefs THEN "malformed"
  ELSE IF RpcFailed(r) THEN "infrastructure"
  ELSE IF Ref(r) \notin ReceiptRefs \/ RpcPending(r) THEN "not_confirmed"
  ELSE IF Ref(r) \notin ConfirmedRefs THEN "failed"
  ELSE IF Ref(r) \notin TreasuryTransferRefs THEN "no_transfer"
  ELSE IF OnChainAmount(Ref(r)) < 1000000 \/ OnChainAmount(Ref(r)) > 1000000000
    THEN "out_of_bounds"
  ELSE "none"

Causes ==
  {"already_claimed", "malformed", "infrastructure", "not_confirmed", "failed",
   "no_transfer", "out_of_bounds"}

\* the responses the caller sees for each cause
Reasons ==
  [c \in Causes |->
     CASE c = "already_claimed" -> {AlreadyClaimed}
       [] c = "malformed" -> {FormatError}
       [] c = "infrastructure" -> InfrastructureErrors
       [] c = "not_confirmed" ->
            {ErrorResponse(400, "Transaction not found or not yet confirmed")}
       [] c = "failed" -> {ErrorResponse(400, "Transaction failed")}
       [] c = "no_transfer" -> {NoTransferError}
       [] c = "out_of_bounds" -> OutOfBounds]

\* C13: with the treasury configured, every finished request that named a
\* reference was answered with a reason of its cause of rejection (and with
\* success or a store error when there is no cause), and the reasons of two
\* different causes have no response in common; a request answered 'already
\* claimed' finds the reference recorded by another request.
C13_ReasonsDistinct ==
  /\ \A c1, c2 \in Causes : c1 # c2 => Reasons[c1] \cap Reasons[c2] = {}
  /\ \A r \in Requests :
       (Done(r) /\ Parsed(r) /\ isBlockchainConfigured(env)) =>
         IF Cause(r) = "none"
           THEN req[r].response.status \in {200, 500}
           ELSE /\ req[r].response \in Reasons[Cause(r)]
                /\ Cause(r) = "already_claimed" =>
                     \E d \in RecordsOf(Ref(r)) : d.id # r

\* two requests refused for different causes with different responses: one
\* for a missing receipt, one for a failed call
C13_Witness ==
  \E r1, r2 \in Requests :
    /\ isBlockchainConfigured(env) /\ Done(r1) /\ Done(r2)
    /\ Cause(r1) = "not_confirmed" /\ Cause(r2) = "infrastructure"
    /\ req[r1].response \in Reasons["not_confirmed"]
    /\ req[r2].response \in Reasons["infrastructure"]
    /\ req[r1].response # req[r2].response

\* the status codes of the client-error rejections
ClientErrorStatus == {400, 401, 429}

\* C14 (as claimed): a request whose call to the chain endpoint failed is
\* answered with a status outside the client-error statuses.
C14_InfrastructureErrorDistinctClass ==
  \A r \in Requests :
    (Done(r) /\ RpcFailed(r)) => req[r].response.status \notin ClientErrorStatus

\* C15 (as claimed): every deposit attempt that reaches chain verification
\* eventually ends with a response.
C15_EveryAttemptTerminates ==
  \A r \in Requests : (req[r].pc = "verify") ~> Done(r)

\* validateApiKey has returned an agent to r
Resolved(r) == req[r].agent.id # NoAgent.id

\* the last event of a history
LastEvent(trace) == trace[Len(trace)]

\* C16 (as claimed): whenever validateApiKey runs on a key that a
\* registration response carries and the store answers the select, it
\* returns the agent of that response.
C16_IssuedKeyResolvesToItsAgent ==
  [][\A r \in Requests : \A i \in issued :
       ( /\ req[r].pc = "auth" /\ req'[r].pc # "auth"
         /\ req[r].key = i.api_key
         /\ LastEvent(req'[r].trace) # "auth_error" ) =>
           /\ req'[r].pc = "touch"
           /\ req'[r].agent.id = i.agent_id]_vars

\* C17: validateApiKey returns an agent only for the key that the agent's
\* registration response carried, the key whose bcrypt hash the agent's row
\* holds; a changed, shortened or lengthened key, another agent's key and a
\* key with LIKE pattern characters never resolve to the agent.
C17_OnlyOwnKeyResolves ==
  \A r \in Requests :
    Resolved(r) =>
      /\ [agent_id |-> req[r].agent.id, api_key |-> req[r].key] \in issued
      /\ agents[req[r].agent.id].api_key_hash
           = hashApiKey(req[r].key, agents[req[r].agent.id].api_key_hash.salt)
      /\ \A id \in DOMAIN agents :
           id # req[r].agent.id =>
             [agent_id |-> id, api_key |-> req[r].key] \notin issued

\* two agents hold keys with the same lookup prefix; the key of one resolved
\* to it, and a key that is that prefix's pattern 'clwdbar_%' selected rows
\* and was refused at the hash comparison
C17_Witness ==
  \E r1, r2 \in Requests :
    /\ Resolved(r1) /\ req[r1].key = KeyForged
    /\ \E id \in DOMAIN agents :
         /\ id # req[r1].agent.id
         /\ agents[id].api_key_prefix = agents[req[r1].agent.id].api_key_prefix
    /\ req[r2].key = KeyPattern /\ Has(r2, "auth_no_match") /\ ~Resolved(r2)

\* C18 (as claimed): no row of the agents table holds a key: the api_key
\* column is empty, api_key_hash is a bcrypt hash and api_key_prefix is the
\* first 16 characters of the key; each key is in one registration
\* response only.
C18_NoPlaintextKeyStored ==
  /\ \A id \in DOMAIN agents :
       /\ agents[id].api_key = Null
       /\ agents[id].api_key_hash.alg = "bcrypt"
       /\ \E i \in issued :
            /\ i.agent_id = id
            /\ agents[id].api_key_prefix = SubSeq(i.api_key, 1, 16)
  /\ \A i1, i2 \in issued : i1.api_key = i2.api_key => i1 = i2

\* C19: a request without a key, a request whose prefix selects no row and
\* a request whose prefix selects rows none of which matches the hash all
\* end with the same response: status 401, 'Invalid or missing API key'.
C19_AuthFailuresAnsweredAlike ==
  \A r \in Requests :
    (Has(r, "auth_missing") \/ Has(r, "auth_no_rows") \/ Has(r, "auth_no_match")) =>
      /\ Done(r) /\ ~Resolved(r)
      /\ req[r].response = ErrorResponse(401, "Invalid or missing API key")

\* a key whose prefix selected no row and a key whose prefix selected a row
\* were both refused, with equal responses
C19_Witness ==
  \E r1, r2 \in Requests :
    /\ Has(r1, "auth_no_rows") /\ Has(r2, "auth_no_match")
    /\ Done(r1) /\ Done(r2)
    /\ req[r1].response = req[r2].response
    /\ req[r1].response.status = 401

\* C20 (as claimed): a request whose credential validation met a store
\* error is not answered 'Invalid or missing API key'.
C20_StoreErrorNotInvalidCredential ==
  \A r \in Requests :
    Has(r, "auth_error") => req[r].response # Unauthorized

\* C21: validateApiKey writes to the store only when it returns an agent:
\* then it sets that agent's status to 'online' and its last_seen to the
\* current time and changes no other agent, no balance, no deposit and no
\* bucket; when it returns null (no key, no row, no matching hash, select
\* error) it writes nothing.
C21_ValidationWritesOnlyOnSuccess ==
  [][\A r \in Requests :
       /\ (req[r].pc = "auth" /\ req'[r].pc # "auth") =>
            /\ agents' = agents /\ deposits' = deposits /\ buckets' = buckets
       /\ (req[r].pc = "touch" /\ req'[r].pc # "touch") =>
            /\ agents' = [agents EXCEPT ![req[r].agent.id].status = "online",
                                        ![req[r].agent.id].last_seen = now]
            /\ \A id \in DOMAIN agents :
                 agents'[id].balance_usdc = agents[id].balance_usdc
            /\ deposits' = deposits /\ buckets' = buckets]_vars

\* a key resolved to its agent, which is now online, while another agent
\* whose row the same prefix selected stays offline, and a refused request
\* has finished
C21_Witness ==
  \E r1, r2 \in Requests :
    /\ Resolved(r1) /\ Has(r1, "touch")
    /\ agents[req[r1].agent.id].status = "online"
    /\ \E id \in Candidates(req[r1].key) :
         id # req[r1].agent.id /\ agents[id].status = "offline"
    /\ Done(r2) /\ ~Resolved(r2) /\ req[r2].response = Unauthorized


\* the gates of the handler in the order they ran for r
Gates(r) == SubSeq(req[r].trace, 1, Min(3, Len(req[r].trace)))

\* r was answered by the rate limiter
RateLimited(r) == req[r].response.status = 429

\* C22: the handler runs validateApiKey, then checkRateLimit for the agent
\* it returned, then the rest.  Only the rate limit step changes a bucket,
\* and only the bucket of the agent the request resolved to, so a request
\* that fails validation consumes no token; a request the limiter rejects
\* ends at once with 429 and the headers X-RateLimit-Remaining and
\* X-RateLimit-Reset, after no read of deposits, no chain call, no insert
\* and no balance write.
C22_GatesInOrder ==
  [][\A r \in Requests :
       /\ (req'[r] # req[r] /\ req[r].pc # "ratelimit") => buckets' = buckets
       /\ (req'[r] # req[r] /\ req[r].pc = "ratelimit") =>
            /\ Resolved(r) /\ req[r].trace = <<"auth", "touch">>
            /\ \A id \in DOMAIN buckets :
                 id # req[r].agent.id => buckets'[id] = buckets[id]
            /\ CheckAndConsume(buckets[req[r].agent.id], now).allowed
                 = ~RateLimited(r)'
       /\ (Done(r)' /\ ~Resolved(r)') => ~Has(r, "ratelimit")'
       /\ Len(req'[r].trace) > 3 => Gates(r)' = <<"auth", "touch", "ratelimit">>
       /\ RateLimited(r)' =>
            /\ Done(r)' /\ req'[r].trace = <<"auth", "touch", "ratelimit">>
            /\ req'[r].headers.remaining = 0 /\ req'[r].headers.reset > 0
            /\ req'[r].response.amount_credited = 0
            /\ (req'[r] # req[r]) => (deposits' = deposits /\ agents' = agents)]_vars

\* two requests of one agent whose bucket held one token: one was admitted
\* and read the deposits table, the other was answered 429 with headers
C22_Witness ==
  \E r1, r2 \in Requests :
    /\ r1 # r2 /\ req[r1].agent.id = req[r2].agent.id
    /\ Has(r1, "dupcheck")
    /\ RateLimited(r2) /\ Done(r2)
    /\ req[r2].headers = [remaining |-> 0, reset |-> 720]
    /\ buckets[req[r2].agent.id].tokens = 0

\* no call between calls i and j was admitted
NoneAdmittedBetween(i, j) == \A k \in (i + 1)..(j - 1) : ~calls[k].allowed

\* C23: a bucket of capacity 5 refilled at 5 tokens per hour and created
\* full admits the first 5 calls made with no time elapsed and rejects the
\* 6th; after a call that left no whole token, the next admitted call comes
\* no earlier than the refill of one token allows, and a call made 12
\* minutes or more after the bucket was emptied is admitted, whatever
\* rejected calls came in between.
C23_FiveThenRejectThenRefill ==
  /\ \A i \in 1..Len(calls) :
       calls[i].t = 0 => (calls[i].allowed <=> i <= 5)
  /\ \A i, j \in 1..Len(calls) :
       (i < j /\ calls[i].allowed /\ calls[i].left = 0 /\ NoneAdmittedBetween(i, j)) =>
         (calls[j].allowed <=> calls[j].t - calls[i].t >= 12)

\* five calls admitted and a sixth rejected at time 0, a call rejected 6
\* minutes later, and a call admitted 12 minutes after the bucket was emptied
C23_Witness ==
  /\ Len(calls) = 8
  /\ \A i \in 1..5 : calls[i].t = 0 /\ calls[i].allowed
  /\ calls[6].t = 0 /\ ~calls[6].allowed
  /\ calls[7].t = 6 /\ ~calls[7].allowed
  /\ calls[8].t = 12 /\ calls[8].allowed

\* C24: the token count of every bucket stays between 0 and the capacity,
\* after any sequence of CheckAndConsume calls at non-decreasing times: the
\* refill stops at the capacity and a rejected call consumes nothing.
C24_TokensWithinCapacity ==
  /\ \A s \in DOMAIN buckets :
       buckets[s].tokens >= 0 /\ buckets[s].tokens <= DEPOSIT_CAPACITY * TOKEN
  /\ \A i \in 1..Len(calls) :
       calls[i].left >= 0 /\ calls[i].left <= DEPOSIT_CAPACITY * TOKEN
  /\ \A i, j \in 1..Len(calls) : i < j => calls[i].t <= calls[j].t

\* the bucket was emptied and a call was rejected at 0 tokens; more than an
\* hour later the refill stopped at the capacity and a call left 4 tokens
C24_Witness ==
  \E i, j \in 1..Len(calls) :
    /\ i < j
    /\ ~calls[i].allowed /\ calls[i].left = 0
    /\ calls[j].t - calls[i].t > 60
    /\ calls[j].allowed /\ calls[j].left = (DEPOSIT_CAPACITY - 1) * TOKEN
    /\ NoneAdmittedBetween(i, j)

\* r1 and r2 were in flight together: neither was submitted after the
\* other had finished
Concurrent(r1, r2) == r1 # r2 /\ r1 \notin req[r2].after /\ r2 \notin req[r1].after

\* C25 (as claimed): when two requests of one agent for two different
\* references that both verified were in flight together and both have
\* finished with a credit, the agent's balance is its balance before them
\* plus both credited amounts.
C25_ConcurrentDepositsBothCounted ==
  \A r1, r2 \in Requests :
    ( /\ Concurrent(r1, r2)
      /\ req[r1].agent.id = req[r2].agent.id
      /\ Done(r1) /\ Done(r2)
      /\ req[r1].verification.valid /\ req[r2].verification.valid
      /\ Ref(r1) # Ref(r2)
      /\ Credited(r1) /\ Credited(r2) ) =>
        agents[req[r1].agent.id].balance_usdc
          = RegisteredAgents[req[r1].agent.id].balance_usdc
              + req[r1].response.amount_credited + req[r2].response.amount_credited

NotYetConfirmed == ErrorResponse(400, "Transaction not found or not yet confirmed")

\* the attempt of r ended because the chain had no receipt yet or because
\* the call to the endpoint failed
EndedUnverified(r) ==
  /\ Done(r) /\ Has(r, "rpc")
  /\ RpcFailed(r) \/ req[r].response = NotYetConfirmed

\* C26: an attempt that ended because the receipt was not yet available or
\* the endpoint failed inserted no DepositRecord and wrote no balance; a
\* request for the same reference submitted after it is answered 'already
\* claimed' only if a third request recorded the reference, and when its
\* own verification succeeds and the store accepts its writes it is the
\* one request that records and credits the reference, with the verified
\* amount.
C26_UnverifiedAttemptRetryable ==
  \A r1, r2 \in Requests :
    EndedUnverified(r1) =>
      /\ ~Inserted(r1) /\ ~Credited(r1)
      /\ \A d \in deposits : d.id # r1
      /\ (r1 \in req[r2].after /\ Done(r2) /\ Parsed(r2) /\ Ref(r2) = Ref(r1)) =>
           /\ req[r2].response = AlreadyClaimed =>
                \E d \in RecordsOf(Ref(r2)) : d.id \notin {r1, r2}
           /\ ( /\ req[r2].verification.valid /\ ~StoreFailed(r2)
                /\ ~Has(r2, "insert_rejected") ) =>
                  /\ req[r2].response = Success(OnChainAmount(Ref(r2)))
                  /\ RecordsOf(Ref(r2))
                       = {[id |-> r2, agent_id |-> req[r2].agent.id,
                           tx_hash |-> Ref(r2), amount |-> OnChainAmount(Ref(r2)),
                           from_address |-> req[r2].verification.from,
                           block_number |-> req[r2].verification.blockNumber]}
                  /\ {q \in Requests : Parsed(q) /\ Ref(q) = Ref(r2) /\ Credited(q)} = {r2}

\* the chain had no receipt for the first attempt; the same reference,
\* submitted again after that attempt had ended, verified and was credited
C26_Witness ==
  \E r1, r2 \in Requests :
    /\ EndedUnverified(r1) /\ Has(r1, "rpc_pending")
    /\ req[r1].response = NotYetConfirmed
    /\ r1 \in req[r2].after /\ Done(r2) /\ Ref(r2) = Ref(r1)
    /\ Credited(r2) /\ req[r2].response = Success(7000000)
    /\ agents[req[r2].agent.id].balance_usdc = 7000000

\* the call of the first attempt failed; the same reference, submitted
\* again after that attempt had ended, verified and was credited
RetryAfterEndpointFailure ==
  \E r1, r2 \in Requests :
    /\ EndedUnverified(r1) /\ RpcFailed(r1)
    /\ r1 \in req[r2].after /\ Done(r2) /\ Ref(r2) = Ref(r1)
    /\ Credited(r2)

\* C27 (as claimed): no agent's balance is ever negative.
C27_BalanceNonNegative ==
  \A id \in DOMAIN agents : agents[id].balance_usdc >= 0

\* no two rows of the agents table hold the same name
NamesUnique ==
  \A id1, id2 \in DOMAIN agents : agents[id1].name = agents[id2].name => id1 = id2

\* C28 (as claimed): no two agents share a name, and a registration that
\* ends while its name belongs to an agent, at the name check or at the
\* insert, ends with 409 Conflict and creates no agent and no credential.
C28_NameConflictAnswered409 ==
  [][/\ NamesUnique'
     /\ \A q \in Registrations :
          ( /\ reg[q].pc \in {"namecheck", "insert"} /\ reg'[q].pc = "done"
            /\ NameTaken(reg[q].name) ) =>
              /\ reg'[q].response = NameConflict
              /\ agents' = agents /\ issued' = issued]_vars

\* C29 (as claimed): every row of the agents table was created by a
\* registration answered 201, and holds the bcrypt hash and the first 16
\* characters of the key that response carries; a registration that ended
\* otherwise returned no key and no agent id.
C29_CredentialCreatedWithPrincipal ==
  /\ \A id \in DOMAIN agents :
       \E q \in Registrations :
         /\ reg[q].response.status = 201 /\ reg[q].response.agent_id = id
         /\ [agent_id |-> id, api_key |-> reg[q].response.api_key] \in issued
         /\ agents[id].api_key = Null
         /\ agents[id].api_key_prefix = SubSeq(reg[q].response.api_key, 1, KeyPrefixLen)
         /\ agents[id].api_key_hash
              = hashApiKey(reg[q].response.api_key, agents[id].api_key_hash.salt)
  /\ \A q \in Registrations :
       (reg[q].pc = "done" /\ reg[q].response.status # 201) =>
         /\ reg[q].response.api_key = NoKey /\ reg[q].response.agent_id = ""
  /\ Cardinality(issued) = Cardinality(DOMAIN agents)

\* the agents whose stored lookup prefix is the first 16 characters of the key
PrefixEqual(apiKey) ==
  {id \in DOMAIN agents : agents[id].api_key_prefix = getKeyPrefix(apiKey)}

\* C30 (as claimed): when validateApiKey runs its select for a presented
\* key, the rows it fetches for the hash comparison are exactly the agents
\* whose stored prefix equals the first 16 characters of the key.
C30_CandidatesHavePrefixOfKey ==
  \A r \in Requests :
    (req[r].pc = "auth" /\ req[r].key # NoKey) =>
      Candidates(req[r].key) = PrefixEqual(req[r].key)

\* what does hold: every agent whose stored prefix equals the first 16
\* characters of the key is among the rows fetched
CandidatesIncludePrefixEqual ==
  \A r \in Requests :
    (req[r].pc = "auth" /\ req[r].key # NoKey) =>
      PrefixEqual(req[r].key) \subseteq Candidates(req[r].key)

\* the logs of the receipt the chain holds for h
LogsOf(h) == ChainReceipt(h).receipt.logs

\* the first log of h's receipt, in receipt order, that is a token transfer
\* to the treasury: its amount in micro-USDC and its sender
FirstTransfer ==
  [h \in TreasuryTransferRefs |->
     LET k == CHOOSE i \in 1..Len(LogsOf(h)) :
                /\ LogToTreasury(LogsOf(h)[i])
                /\ \A j \in 1..(i - 1) : ~LogToTreasury(LogsOf(h)[j])
     IN  [index |-> k,
          amount |-> HexValue(SubSeq(LogsOf(h)[k].data, 3, Len(LogsOf(h)[k].data))),
          from |-> <<"0","x">> \o toLowerCase(SubSeq(LogsOf(h)[k].topics[2], 27, 66))]]

\* C31: a verification that comes out valid carries the amount and the
\* sender of the first log of the receipt that is a Transfer of the token
\* contract to the treasury; a successful receipt that holds such a log is
\* never refused for want of a transfer, whatever logs stand before it; and
\* every DepositRecord of the verified path holds that first log's amount
\* and sender, whatever matching logs follow.
C31_FirstMatchingLogDecides ==
  /\ \A r \in Requests :
       /\ req[r].verification.valid =>
            /\ Ref(r) \in TreasuryTransferRefs
            /\ req[r].verification.amount = FirstTransfer[Ref(r)].amount
            /\ req[r].verification.from = FirstTransfer[Ref(r)].from
       /\ ( /\ RpcReturned(r) /\ ~RpcFailed(r) /\ ~RpcPending(r)
            /\ Ref(r) \in ConfirmedRefs /\ Ref(r) \in TreasuryTransferRefs ) =>
              req[r].response # NoTransferError
       /\ (Credited(r) /\ req[r].verification.valid) =>
            req[r].response = Success(FirstTransfer[Ref(r)].amount)
  /\ isBlockchainConfigured(env) =>
       \A d \in deposits :
         /\ d.tx_hash \in TreasuryTransferRefs
         /\ d.amount = FirstTransfer[d.tx_hash].amount
         /\ d.from_address = FirstTransfer[d.tx_hash].from

\* a receipt of five logs: three that each fail one test, then 7 USDC to the
\* treasury from one sender, then 5 USDC to the treasury from another; the
\* request was credited 7 USDC and the record names the first sender
C31_Witness ==
  \E r \in Requests :
    /\ Done(r) /\ Credited(r) /\ Ref(r) = TxGood2
    /\ Len(LogsOf(TxGood2)) = 5
    /\ FirstTransfer[TxGood2].index = 4
    /\ LogToTreasury(LogsOf(TxGood2)[5])
    /\ req[r].response = Success(7000000)
    /\ \E d \in RecordsOf(TxGood2) :
         d.amount = 7000000 /\ d.from_address = toLowerCase(SenderAddress)

\* r1 and r2 named references that differ, and only in letter case
CaseVariants(r1, r2) ==
  /\ Parsed(r1) /\ Parsed(r2)
  /\ req[r1].body.tx_hash # req[r2].body.tx_hash
  /\ Ref(r1) = Ref(r2)

\* C32: references that differ only in letter case are one idempotency
\* key: a request that names a case variant of a reference and was
\* submitted after a request for that reference had been credited ends with
\* 'already claimed' and inserts and credits nothing; every DepositRecord
\* holds its reference in lower case, and no two records hold references
\* that are case variants of each other.
C32_CaseVariantsOneKey ==
  /\ \A r1, r2 \in Requests :
       ( /\ CaseVariants(r1, r2)
         /\ Done(r1) /\ Credited(r1) /\ r1 \in req[r2].after
         /\ Done(r2) ) =>
           /\ req[r2].response = AlreadyClaimed
           /\ ~Inserted(r2) /\ ~Credited(r2) /\ ~Has(r2, "rpc")
  /\ \A d \in deposits : d.tx_hash = toLowerCase(d.tx_hash)
  /\ \A d1, d2 \in deposits :
       toLowerCase(d1.tx_hash) = toLowerCase(d2.tx_hash) => d1 = d2

\* the reference in upper-case hex digits was verified and credited; the
\* same reference in lower case, submitted afterwards, was refused, and the
\* one record holds the lower-case form
C32_Witness ==
  \E r1, r2 \in Requests :
    /\ CaseVariants(r1, r2)
    /\ req[r1].body.tx_hash = TxGoodUpper /\ req[r2].body.tx_hash = TxGood
    /\ Done(r1) /\ Credited(r1) /\ req[r1].verification.valid
    /\ r1 \in req[r2].after /\ Done(r2)
    /\ req[r2].response = AlreadyClaimed
    /\ Cardinality(RecordsOf(TxGood)) = 1

\* the agent whose key r presented, by the registration responses
Authenticated(r) == [agent_id |-> req[r].agent.id, api_key |-> req[r].key] \in issued

\* the call of r returned a successful receipt whose first transfer to the
\* treasury is within the amount bounds
Verifiable(r) ==
  /\ RpcReturned(r) /\ ~RpcFailed(r) /\ ~RpcPending(r)
  /\ Ref(r) \in ConfirmedRefs /\ Ref(r) \in TreasuryTransferRefs
  /\ FirstTransfer[Ref(r)].amount >= MIN_DEPOSIT_USDC
  /\ FirstTransfer[Ref(r)].amount <= MAX_DEPOSIT_USDC

\* C33: the request that inserts a DepositRecord makes the agent that its
\* key authenticated the owner, and the balance write of a request changes
\* that agent's row only; the sender on the chain is stored in the record
\* and decides nothing: a receipt verifies whoever sent the funds, and the
\* reference belongs to the request whose insert comes first.
C33_CreditedToAuthenticatedSubmitter ==
  [][\A r \in Requests :
       /\ Resolved(r)' => Authenticated(r)'
       /\ (~Inserted(r) /\ Inserted(r)') =>
            /\ RecordsOf(Ref(r)) = {}
            /\ \E d \in deposits' :
                 /\ deposits' = deposits \cup {d}
                 /\ d.id = r /\ d.agent_id = req[r].agent.id /\ d.tx_hash = Ref(r)
                 /\ req[r].verification.valid => d.from_address = FirstTransfer[Ref(r)].from
       /\ (~Credited(r) /\ Credited(r)') =>
            /\ \A id \in DOMAIN agents : id # req[r].agent.id => agents'[id] = agents[id]
            /\ agents'[req[r].agent.id].balance_usdc
                 = req[r].agent.balance_usdc + req'[r].response.amount_credited
       /\ Verifiable(r)' => req'[r].verification.valid]_vars

\* two agents submitted one reference whose funds a third address sent; the
\* submission that inserted first owns the record and was credited, the
\* other was refused
C33_Witness ==
  \E r1, r2 \in Requests :
    /\ Concurrent(r1, r2) /\ Done(r1) /\ Done(r2)
    /\ Ref(r1) = TxMax /\ Ref(r2) = TxMax
    /\ req[r1].agent.id # req[r2].agent.id
    /\ req[r1].verification.valid /\ req[r2].verification.valid
    /\ Credited(r2) /\ req[r1].response = AlreadyClaimed
    /\ RecordsOf(TxMax) # {}
    /\ \A d \in RecordsOf(TxMax) :
         /\ d.agent_id = req[r2].agent.id
         /\ d.from_address = toLowerCase(OtherAddress)
    /\ agents[req[r2].agent.id].balance_usdc = 1000000000
    /\ agents[req[r1].agent.id].balance_usdc = 0

\* the insert of r came back with an error
InsertRejected(r) == Has(r, "insert_rejected")

\* C34: a request on the test-mode path whose insert of the test
\* DepositRecord was rejected writes no balance, and every balance write of
\* the test-mode path belongs to a record that the request itself inserted.
C34_TestCreditOnlyAfterInsert ==
  \A r \in Requests :
    (OnTestPath(r) /\ Credited(r)) =>
      /\ ~InsertRejected(r)
      /\ \E d \in deposits : d.id = r /\ d.tx_hash = Ref(r)

\* the registration q ended with the limiter's rejection
RegRateLimited(q) == reg[q].pc = "done" /\ reg[q].response.status = 429

\* C35: the first step of every registration request, whatever its body,
\* is the limiter's check-and-consume on the bucket of the client address;
\* a request the limiter rejects ends there with 429, the agents table and
\* the credentials issued unchanged, and never reaches the name lookup or
\* the insert; a request the limiter admits is not answered 429.
C35_RegisterLimiterFirst ==
  [][\A q \in Registrations :
       /\ (reg[q].pc = "idle" /\ reg'[q].pc # "idle") =>
            LET rl == CheckAndConsume(buckets[ClientIp], now)
            IN  /\ buckets'[ClientIp] = rl.bucket
                /\ ~rl.allowed =>
                     /\ RegRateLimited(q)'
                     /\ reg'[q].response.api_key = NoKey
                     /\ reg'[q].response.agent_id = ""
                     /\ agents' = agents /\ issued' = issued
                /\ rl.allowed => reg'[q].response.status # 429
       /\ (reg[q].pc # "idle" /\ ~RegRateLimited(q)) => ~RegRateLimited(q)'
       /\ RegRateLimited(q) => reg'[q] = reg[q]]_vars

\* one registration took the last token and created its agent; the next
\* one, with a name that is free, was rejected with 429 and left one agent,
\* one credential and an empty bucket
C35_Witness ==
  \E q1, q2 \in Registrations :
    /\ reg[q1].pc = "done" /\ reg[q1].response.status = 201
    /\ RegRateLimited(q2)
    /\ reg[q2].name \in Names /\ ~NameTaken(reg[q2].name)
    /\ reg[q2].response.api_key = NoKey
    /\ Cardinality(DOMAIN agents) = 1 /\ Cardinality(issued) = 1
    /\ buckets[ClientIp].tokens < TOKEN

=============================================================================
